---- MODULE Spec2Model ----
(***************************************************************************)
(* Construction, validation and (de)serialization of the configuration     *)
(* models of aind-data-transfer-models:                                    *)
(*   trigger.py  TriggerConfigModel                                        *)
(*   core.py     ModalityConfigs, BasicUploadJobConfigs                    *)
(*                                                                         *)
(* One behaviour is one session of a caller: it optionally builds a        *)
(* TriggerConfigModel, builds a ModalityConfigs or a BasicUploadJobConfigs *)
(* (handing it the trigger configuration it built), serializes the result  *)
(* with model_dump_json and loads a JSON document with                     *)
(* model_validate_json.  Every construction is a pure function of its      *)
(* keyword arguments, so the keyword arguments are drawn from small sets   *)
(* and the operators below compute what the validators compute.            *)
(*                                                                         *)
(* Python values.  A field typed Optional[str] whose text is never taken   *)
(* apart holds a TLA+ string, None being the string None below.  A field   *)
(* whose value may be a str, a list or a tuple holds a tagged record:      *)
(*   PyNone, PyStr(segs), PyList(items), FieldInfoTuple(d), Unset.         *)
(* PyStr(segs) is the Python string ";".join(segs), so that                *)
(* str.split(";") is computed and not assumed.                             *)
(***************************************************************************)
EXTENDS Integers, Sequences, FiniteSets, TLC

VARIABLES pc, trig, model, json, loaded

vars == <<pc, trig, model, json, loaded>>

\* ------------------------------------------------------------ Python values

None == "<None>"

Absent == "<absent>"

PyNone == [t |-> "None"]

Unset == [t |-> "unset"]

PyStr(segs) == [t |-> "str", segs |-> segs]

PyList(items) == [t |-> "list", items |-> items]

\* The 1-tuple (FieldInfo(default=d),): what `name: T = (Field(default=d),)`
\* binds as the default of a field.
FieldInfoTuple(d) == [t |-> "tuple", default |-> d]

IsStr(v) == v.t = "str"

IsList(v) == v.t = "list"

\* A str written character by character.
PyChars(chars) == [t |-> "str", chars |-> chars]

IsChars(v) == v.t = "str" /\ "chars" \in DOMAIN v

LowerCase == <<"a", "b", "c", "d", "e", "f", "g", "h", "i", "j", "k", "l", "m", "n", "o", "p", "q", "r", "s", "t", "u", "v", "w", "x", "y", "z">>

UpperCase == <<"A", "B", "C", "D", "E", "F", "G", "H", "I", "J", "K", "L", "M", "N", "O", "P", "Q", "R", "S", "T", "U", "V", "W", "X", "Y", "Z">>

\* s.upper()
upper(chars) ==
    [i \in DOMAIN chars |->
        IF \E k \in DOMAIN LowerCase : LowerCase[k] = chars[i]
        THEN UpperCase[CHOOSE k \in DOMAIN LowerCase : LowerCase[k] = chars[i]]
        ELSE chars[i]]

\* s.replace(old, new) of single characters.
replace(chars, old, new) ==
    [i \in DOMAIN chars |-> IF chars[i] = old THEN new ELSE chars[i]]

\* The characters of a str as one text: f"{s}".
RECURSIVE format(_)
format(chars) ==
    IF chars = <<>> THEN "" ELSE Head(chars) \o format(Tail(chars))

\* A split that stops at the first delimiter.
split_first(s) == PyList(<<s.segs[1]>>)

\* s.split(";") of a str value.
split(s) == PyList(s.segs)

\* ------------------------------------------------------------ bounds

\* Largest number of optional keyword arguments a caller passes to
\* TriggerConfigModel(...) at once.
MaxTriggerKwargs == 3

\* Largest number of optional keyword arguments a caller passes to
\* BasicUploadJobConfigs(...) at once.
MaxJobKwargs == 2

\* Largest number of entries of a job's modalities list.
MaxModalities == 2

\* Largest number of distinct jobs in the upload_jobs of a SubmitJobRequest
\* (the last one may be repeated to fill the list).
MaxDistinctJobs == 2

\* ------------------------------------------------------------ taxonomies (aind_data_schema_models)

\* Platform instances of aind_data_schema_models.platforms: the ones that
\* _get_job_type tells apart, and two of the others.
Platforms ==
    { "BEHAVIOR", "CONFOCAL", "ECEPHYS", "SMARTSPIM", "SINGLE_PLANE_OPHYS",
      "MULTIPLANE_OPHYS" }

PlatformAbbreviation(p) ==
    CASE p = "BEHAVIOR" -> "behavior"
      [] p = "CONFOCAL" -> "confocal"
      [] p = "ECEPHYS" -> "ecephys"
      [] p = "SMARTSPIM" -> "SmartSPIM"
      [] p = "SINGLE_PLANE_OPHYS" -> "single-plane-ophys"
      [] p = "MULTIPLANE_OPHYS" -> "multiplane-ophys"

PlatformName(p) ==
    CASE p = "BEHAVIOR" -> "Behavior platform"
      [] p = "CONFOCAL" -> "Confocal microscopy platform"
      [] p = "ECEPHYS" -> "Electrophysiology platform"
      [] p = "SMARTSPIM" -> "SmartSPIM platform"
      [] p = "SINGLE_PLANE_OPHYS" -> "Single-plane optical physiology platform"
      [] p = "MULTIPLANE_OPHYS" -> "Multiplane optical physiology platform"

\* Modality instances of aind_data_schema_models.modalities.
Modalities == { "BEHAVIOR_VIDEOS", "ECEPHYS", "FIB" }

ModalityAbbreviation(m) ==
    CASE m = "BEHAVIOR_VIDEOS" -> "behavior-videos"
      [] m = "ECEPHYS" -> "ecephys"
      [] m = "FIB" -> "fib"

ModalityName(m) ==
    CASE m = "BEHAVIOR_VIDEOS" -> "Behavior videos"
      [] m = "ECEPHYS" -> "Extracellular electrophysiology"
      [] m = "FIB" -> "Fiber photometry"

\* The characters of the abbreviations.
Spelling ==
    "behavior" :> <<"b", "e", "h", "a", "v", "i", "o", "r">>
    @@ "confocal" :> <<"c", "o", "n", "f", "o", "c", "a", "l">>
    @@ "ecephys" :> <<"e", "c", "e", "p", "h", "y", "s">>
    @@ "SmartSPIM" :> <<"S", "m", "a", "r", "t", "S", "P", "I", "M">>
    @@ "single-plane-ophys" :> <<"s", "i", "n", "g", "l", "e", "-", "p", "l", "a", "n", "e", "-", "o", "p", "h", "y", "s">>
    @@ "multiplane-ophys" :> <<"m", "u", "l", "t", "i", "p", "l", "a", "n", "e", "-", "o", "p", "h", "y", "s">>
    @@ "behavior-videos" :> <<"b", "e", "h", "a", "v", "i", "o", "r", "-", "v", "i", "d", "e", "o", "s">>
    @@ "fib" :> <<"f", "i", "b">>

BucketType == { "private", "open", "scratch" }

\* ------------------------------------------------------------ trigger.py

ValidJobType ==
    { "ecephys", "ecephys_opto", "singleplane_ophys", "multiplane_ophys",
      "smartspim", "run_generic_pipeline", "register_data", "test" }

RUN_GENERIC_PIPELINE == "run_generic_pipeline"

\* The declared fields of TriggerConfigModel with their defaults.  The
\* defaults of capsule_version and results_suffix are written with a trailing
\* comma in the source, which makes each a 1-tuple holding the FieldInfo.
TriggerDefaults ==
    [ bucket |-> None,
      prefix |-> None,
      asset_name |-> None,
      mount |-> None,
      input_data_asset_id |-> PyNone,
      input_data_mount |-> PyNone,
      process_capsule_id |-> None,
      capsule_version |-> FieldInfoTuple(None),
      results_suffix |-> FieldInfoTuple("processed"),
      input_data_asset_name |-> None,
      aind_data_transfer_version |-> None,
      modalities |-> PyNone,
      capsule_id |-> None,
      input_data_point |-> PyNone ]

TriggerFields == {"job_type"} \cup DOMAIN TriggerDefaults

ValidationError(errors) ==
    [ok |-> FALSE, exc |-> "ValidationError", errors |-> errors]

Raised(exc, msg) == [ok |-> FALSE, exc |-> exc, errors |-> <<msg>>]

Valid(obj) == [ok |-> TRUE, obj |-> obj]

\* Field-by-field validation of the keyword arguments: a keyword that was
\* not passed takes the field's default as it is (validate_default is off),
\* and a value of the wrong type for Optional[str] is a string_type error.
TriggerFieldErrors(kw) ==
    (IF kw.capsule_version.t \in {"tuple", "list"}
        THEN <<"capsule_version: Input should be a valid string">> ELSE <<>>)
    \o
    (IF kw.results_suffix.t \in {"tuple", "list"}
        THEN <<"results_suffix: Input should be a valid string">> ELSE <<>>)

\* A Modality given as an instance is kept; one given as a mapping is
\* resolved by its discriminator, the name.
ResolveModality(x) ==
    IF x.t = "Modality" THEN x.v
    ELSE CHOOSE m \in Modalities : ModalityName(m) = x.name

TriggerFieldValues(kw) ==
    [ kw EXCEPT
        !.modalities =
            IF @ = PyNone THEN @
            ELSE PyList([i \in DOMAIN @.items |-> ResolveModality(@.items[i])]),
        !.capsule_version =
            IF @ = Unset THEN TriggerDefaults.capsule_version ELSE @,
        !.results_suffix =
            IF @ = Unset THEN TriggerDefaults.results_suffix ELSE @ ]

\* A registration step that leaves asset_name and mount as given.
registration_as_given(self) == self

\* validate_trigger_config, lines 123-133: registration.
registration(self) ==
    IF self.bucket /= None /\ self.prefix /= None
    THEN [ self EXCEPT
             !.asset_name = IF @ = None THEN self.prefix ELSE @,
             !.mount = IF @ = None THEN self.prefix ELSE @ ]
    ELSE self

registration_rejects(self) ==
    /\ self.bucket /= None
    /\ self.prefix /= None
    /\ self.input_data_asset_id /= PyNone

\* An alias step in which the alias, when set, replaces the modern field.
legacy_alias_wins(self) ==
    [ self EXCEPT
        !.input_data_mount =
            IF self.input_data_point /= PyNone
            THEN self.input_data_point ELSE @,
        !.process_capsule_id =
            IF self.capsule_id /= None THEN self.capsule_id ELSE @ ]

\* validate_trigger_config, lines 135-141: legacy aliases.
legacy(self) ==
    [ self EXCEPT
        !.input_data_mount =
            IF self.input_data_point /= PyNone /\ @ = PyNone
            THEN self.input_data_point ELSE @,
        !.process_capsule_id =
            IF self.capsule_id /= None /\ @ = None
            THEN self.capsule_id ELSE @ ]

\* A generic pipeline step that asks for nothing.
generic_pipeline_unchecked(self) == Valid(self)

\* validate_trigger_config, lines 169-176: generic pipeline.
generic_pipeline(self) ==
    IF self.job_type = RUN_GENERIC_PIPELINE /\ self.process_capsule_id = None
    THEN ValidationError(<<"Value error, process_capsule_id is required for job type run_generic_pipeline.">>)
    ELSE Valid(self)

\* validate_trigger_config, lines 143-167: input data asset ids, mounts and
\* names.  input_data_mount.split is called on whatever the field holds, so
\* a value that is already a list raises AttributeError.
input_data_assets(self) ==
    IF self.input_data_asset_id = PyNone THEN generic_pipeline(self)
    ELSE
    LET ids == IF IsStr(self.input_data_asset_id)
               THEN split(self.input_data_asset_id)
               ELSE self.input_data_asset_id
    IN  IF IsList(self.input_data_mount)
        THEN Raised("AttributeError", "'list' object has no attribute 'split'")
        ELSE
        LET mounts == IF self.input_data_mount /= PyNone
                      THEN split(self.input_data_mount)
                      ELSE PyNone
        IN  IF ~IsList(mounts)
            THEN ValidationError(<<"Value error, input_data_mount should be a list if input_data_asset_id is a list.">>)
            ELSE IF Len(ids.items) /= Len(mounts.items)
            THEN ValidationError(<<"Value error, input_data_asset_id and input_data_mount should have the same length when multiple input data assets are attached.">>)
            ELSE IF self.input_data_asset_name = None
            THEN ValidationError(<<"Value error, input_data_asset_name is required when multiple input data assets are attached.">>)
            ELSE generic_pipeline(
                    [ self EXCEPT !.input_data_asset_id = ids,
                                  !.input_data_mount = mounts ])

validate_trigger_config(self) ==
    IF registration_rejects(self)
    THEN ValidationError(<<"Value error, If bucket and prefix are provided, input_data_asset_id should not be provided.">>)
    ELSE input_data_assets(legacy(registration(self)))

\* TriggerConfigModel(**kw)
TriggerConfigModel(kw) ==
    IF TriggerFieldErrors(kw) /= <<>>
    THEN ValidationError(TriggerFieldErrors(kw))
    ELSE validate_trigger_config(TriggerFieldValues(kw))

\* ------------------------------------------------------------ core.py: ModalityConfigs

PyBool(b) == [t |-> "bool", v |-> b]

\* computed_field output_folder_name
output_folder_name(self) == ModalityAbbreviation(self.modality)

\* A default that is true for ecephys whatever the caller passed.
get_compress_source_default_ecephys_first(compress_source, modality) ==
    IF modality = "ECEPHYS" THEN TRUE
    ELSE IF compress_source /= PyNone THEN compress_source.v
    ELSE FALSE

\* field_validator("compress_raw_data", mode="after"), lines 116-129
get_compress_source_default(compress_source, modality) ==
    IF compress_source = PyNone /\ modality = "ECEPHYS" THEN TRUE
    ELSE IF compress_source /= PyNone THEN compress_source.v
    ELSE FALSE

\* The fields ModalityConfigs declares, lines 66-94.
ModalityConfigsFields ==
    { "modality", "source", "compress_raw_data", "extra_configs",
      "slurm_settings" }

\* extra="forbid": one error for each key that is no declared field.
RECURSIVE ExtraErrors(_, _)
ExtraErrors(keys, loc) ==
    IF keys = {} THEN <<>>
    ELSE LET k == CHOOSE k \in keys : TRUE
         IN  <<loc \o k \o ": Extra inputs are not permitted">>
                \o ExtraErrors(keys \ {k}, loc)

\* Errors of the fields of one ModalityConfigs input, each prefixed by `loc`.
\* ModalityConfigs is a BaseSettings without a model_config of its own, so
\* extra="forbid": a key that is no declared field (the computed
\* output_folder_name included) is rejected.
ModalityFieldErrors(kw, loc) ==
    (IF kw.output_folder_name /= Absent
        THEN <<loc \o "output_folder_name: Extra inputs are not permitted">>
        ELSE <<>>)
    \o ExtraErrors(DOMAIN kw \ (ModalityConfigsFields \cup {"output_folder_name"}),
                   loc)

\* _MODALITY_MAP, lines 61-64: the modalities under a key.
_MODALITY_MAP(key) ==
    { m \in Modalities :
        replace(upper(Spelling[ModalityAbbreviation(m)]), "-", "_") = key }

\* field_validator("modality", mode="before"), lines 100-114: a str is looked
\* up; anything else is handed to the field's own validation.
parse_modality_string(input_modality) ==
    IF IsChars(input_modality)
    THEN LET found == _MODALITY_MAP(
                        replace(upper(input_modality.chars), "-", "_"))
         IN  IF found = {}
             THEN Raised("AttributeError",
                         "Unknown Modality: " \o format(input_modality.chars))
             ELSE Valid(CHOOSE m \in found : TRUE)
    ELSE Valid(ResolveModality(input_modality))

ModalityFieldValues(kw) ==
    [ modality |-> parse_modality_string(kw.modality).obj,
      source |-> kw.source,
      compress_raw_data |->
          get_compress_source_default(kw.compress_raw_data,
                                      parse_modality_string(kw.modality).obj),
      extra_configs |-> kw.extra_configs,
      slurm_settings |-> kw.slurm_settings ]

\* ModalityConfigs(**kw), ModalityConfigs.model_validate(kw)
ModalityConfigs(kw) ==
    IF ~parse_modality_string(kw.modality).ok
    THEN parse_modality_string(kw.modality)
    ELSE IF ModalityFieldErrors(kw, "") /= <<>>
    THEN ValidationError(ModalityFieldErrors(kw, ""))
    ELSE Valid(ModalityFieldValues(kw))

\* ------------------------------------------------------------ core.py: datetimes

datetime(Y, m, d, H, M, S) ==
    [t |-> "datetime", Y |-> Y, m |-> m, d |-> d, H |-> H, M |-> M, S |-> S]

Pad2(n) == IF n < 10 THEN "0" \o ToString(n) ELSE ToString(n)

Pad4(n) ==
    IF n < 10 THEN "000" \o ToString(n)
    ELSE IF n < 100 THEN "00" \o ToString(n)
    ELSE IF n < 1000 THEN "0" \o ToString(n)
    ELSE ToString(n)

\* The same text without zero padding ("%Y-%-m-%-d_%-H-%-M-%-S").
datetime_to_name_string_unpadded(dt) ==
    ToString(dt.Y) \o "-" \o ToString(dt.m) \o "-" \o ToString(dt.d) \o "_"
        \o ToString(dt.H) \o "-" \o ToString(dt.M) \o "-" \o ToString(dt.S)

\* dt.strftime("%Y-%m-%d_%H-%M-%S"), as build_data_name formats the
\* creation datetime.
datetime_to_name_string(dt) ==
    Pad4(dt.Y) \o "-" \o Pad2(dt.m) \o "-" \o Pad2(dt.d) \o "_"
        \o Pad2(dt.H) \o "-" \o Pad2(dt.M) \o "-" \o Pad2(dt.S)

\* dt.isoformat(), the JSON form of a datetime.
isoformat(dt) ==
    Pad4(dt.Y) \o "-" \o Pad2(dt.m) \o "-" \o Pad2(dt.d) \o "T"
        \o Pad2(dt.H) \o ":" \o Pad2(dt.M) \o ":" \o Pad2(dt.S)

Datetimes == { datetime(2020, 10, 13, 13, 10, 10), datetime(2020, 1, 2, 3, 4, 5) }

\* re.match(_DATETIME_PATTERN1, text): within the strings of the model, the
\* texts of the form YYYY-MM-DDTHH:mm:ss are the ISO forms of Datetimes.
MatchesPattern1(text) == \E d \in Datetimes : isoformat(d) = text

fromisoformat(text) == CHOOSE d \in Datetimes : isoformat(d) = text

PyText(text) == [t |-> "str", text |-> text]

DigitChars == <<"0", "1", "2", "3", "4", "5", "6", "7", "8", "9">>

\* \d
Digit == { DigitChars[i] : i \in DOMAIN DigitChars }

DigitValue(c) == (CHOOSE i \in DOMAIN DigitChars : DigitChars[i] = c) - 1

\* int(chars) of a run of digits.
RECURSIVE int(_)
int(chars) ==
    IF chars = <<>> THEN 0
    ELSE 10 * int(SubSeq(chars, 1, Len(chars) - 1))
            + DigitValue(chars[Len(chars)])

\* A regular expression without repetition is the sequence of the character
\* classes of its positions; `$` also matches before one final newline.
FullMatch(classes, chars) ==
    /\ Len(chars) = Len(classes)
    /\ \A i \in DOMAIN classes : chars[i] \in classes[i]

Match(classes, chars) ==
    \/ FullMatch(classes, chars)
    \/ /\ chars /= <<>>
       /\ chars[Len(chars)] = "\n"
       /\ FullMatch(classes, SubSeq(chars, 1, Len(chars) - 1))

\* \d{n}
Digits(n) == [i \in 1..n |-> Digit]

\* _DATETIME_PATTERN1: ^\d{4}-\d{2}-\d{2}[ |T]\d{2}:\d{2}:\d{2}$
\* (the class [ |T] holds the space, the bar and the T).
_DATETIME_PATTERN1 ==
    Digits(4) \o <<{"-"}>> \o Digits(2) \o <<{"-"}>> \o Digits(2)
        \o <<{" ", "|", "T"}>>
        \o Digits(2) \o <<{":"}>> \o Digits(2) \o <<{":"}>> \o Digits(2)

\* _DATETIME_PATTERN2:
\* ^\d{1,2}/\d{1,2}/\d{4} \d{1,2}:\d{2}:\d{2} [APap][Mm]$
\* with a, b and c digits for the month, the day and the hour.
_DATETIME_PATTERN2(a, b, c) ==
    Digits(a) \o <<{"/"}>> \o Digits(b) \o <<{"/"}>> \o Digits(4) \o <<{" "}>>
        \o Digits(c) \o <<{":"}>> \o Digits(2) \o <<{":"}>> \o Digits(2)
        \o <<{" "}, {"A", "P", "a", "p"}, {"M", "m"}>>

MatchesPattern1Chars(chars) == Match(_DATETIME_PATTERN1, chars)

MatchesPattern2Chars(chars) ==
    \E a \in 1..2, b \in 1..2, c \in 1..2 :
        Match(_DATETIME_PATTERN2(a, b, c), chars)

IsLeap(Y) == (Y % 4 = 0 /\ Y % 100 /= 0) \/ Y % 400 = 0

DaysInMonth(Y, m) ==
    IF m = 2 THEN (IF IsLeap(Y) THEN 29 ELSE 28)
    ELSE IF m \in {4, 6, 9, 11} THEN 30 ELSE 31

\* datetime(Y, m, d, H, M, S) with the range checks of the constructor.
new_datetime(Y, m, d, H, M, S) ==
    IF Y < 1 THEN ValidationError(<<"acq_datetime: Value error, year " \o ToString(Y) \o " is out of range">>)
    ELSE IF m < 1 \/ m > 12 THEN ValidationError(<<"acq_datetime: Value error, month must be in 1..12">>)
    ELSE IF d < 1 \/ d > DaysInMonth(Y, m) THEN ValidationError(<<"acq_datetime: Value error, day is out of range for month">>)
    ELSE IF H > 23 THEN ValidationError(<<"acq_datetime: Value error, hour must be in 0..23">>)
    ELSE IF M > 59 THEN ValidationError(<<"acq_datetime: Value error, minute must be in 0..59">>)
    ELSE IF S > 59 THEN ValidationError(<<"acq_datetime: Value error, second must be in 0..59">>)
    ELSE Valid(datetime(Y, m, d, H, M, S))

\* datetime.fromisoformat(s) of a str that matches _DATETIME_PATTERN1: any
\* character may separate the date from the time; a final newline is no part
\* of an ISO string.
datetime_fromisoformat(chars) ==
    IF Len(chars) /= 19
    THEN ValidationError(<<"acq_datetime: Value error, Invalid isoformat string">>)
    ELSE new_datetime(int(SubSeq(chars, 1, 4)), int(SubSeq(chars, 6, 7)),
                      int(SubSeq(chars, 9, 10)), int(SubSeq(chars, 12, 13)),
                      int(SubSeq(chars, 15, 16)), int(SubSeq(chars, 18, 19)))

\* The runs of characters between separators.
RECURSIVE Runs(_, _)
Runs(chars, separators) ==
    IF \A i \in DOMAIN chars : chars[i] \notin separators THEN <<chars>>
    ELSE <<SubSeq(chars, 1,
                  (CHOOSE i \in DOMAIN chars :
                      /\ chars[i] \in separators
                      /\ \A k \in 1..(i - 1) : chars[k] \notin separators) - 1)>>
         \o Runs(SubSeq(chars,
                        (CHOOSE i \in DOMAIN chars :
                            /\ chars[i] \in separators
                            /\ \A k \in 1..(i - 1) : chars[k] \notin separators) + 1,
                        Len(chars)),
                 separators)

\* The fields "%m/%d/%Y %I:%M:%S %p" reads, as runs: %I is an hour of the
\* 12-hour clock, 1 to 12, %S goes up to 61, %p is read without regard to
\* case, and nothing may follow it.
strptime_runs(month, day, year, hour, minute, second, p) ==
    IF \/ Len(p) /= 2
       \/ int(month) < 1 \/ int(month) > 12
       \/ int(day) < 1 \/ int(day) > 31
       \/ int(hour) < 1 \/ int(hour) > 12
       \/ int(minute) > 59 \/ int(second) > 61
    THEN ValidationError(<<"acq_datetime: Value error, time data does not match format '%m/%d/%Y %I:%M:%S %p'">>)
    ELSE new_datetime(int(year), int(month), int(day),
                      (int(hour) % 12) + (IF p[1] \in {"P", "p"} THEN 12 ELSE 0),
                      int(minute), int(second))

\* datetime.strptime(s, "%m/%d/%Y %I:%M:%S %p") of a str that matches
\* _DATETIME_PATTERN2.
strptime(chars) ==
    strptime_runs(Runs(chars, {"/", " ", ":"})[1], Runs(chars, {"/", " ", ":"})[2],
                  Runs(chars, {"/", " ", ":"})[3], Runs(chars, {"/", " ", ":"})[4],
                  Runs(chars, {"/", " ", ":"})[5], Runs(chars, {"/", " ", ":"})[6],
                  Runs(chars, {"/", " ", ":"})[7])

\* field_validator("acq_datetime", mode="before").  A str is written
\* character by character (chars) or, in a dumped document, as the text that
\* isoformat gave.
_parse_datetime(datetime_val) ==
    IF datetime_val.t = "str" /\ "chars" \in DOMAIN datetime_val
    THEN IF MatchesPattern1Chars(datetime_val.chars)
         THEN datetime_fromisoformat(datetime_val.chars)
         ELSE IF MatchesPattern2Chars(datetime_val.chars)
         THEN strptime(datetime_val.chars)
         ELSE ValidationError(<<"acq_datetime: Value error, Incorrect datetime format, should be YYYY-MM-DD HH:mm:ss or MM/DD/YYYY I:MM:SS P">>)
    ELSE IF datetime_val.t = "str" /\ MatchesPattern1(datetime_val.text)
    THEN Valid(fromisoformat(datetime_val.text))
    ELSE IF datetime_val.t = "str"
    THEN ValidationError(<<"acq_datetime: Value error, Incorrect datetime format, should be YYYY-MM-DD HH:mm:ss or MM/DD/YYYY I:MM:SS P">>)
    ELSE Valid(datetime_val)

\* ------------------------------------------------------------ core.py: paths

\* A str that names a path, written as the components between its "/".
PathText(components) == [t |-> "str", components |-> components]

NamesAnEntry(component) == component /= "" /\ component /= "."

\* PurePosixPath(x), of a relative path: empty and "." components are dropped.
PurePosixPath(x) ==
    IF x = PyNone THEN PyNone
    ELSE IF x.t = "PurePosixPath" THEN x
    ELSE [t |-> "PurePosixPath", parts |-> SelectSeq(x.components, NamesAnEntry)]

RECURSIVE JoinPath(_)
JoinPath(parts) ==
    IF parts = <<>> THEN "."
    ELSE IF Len(parts) = 1 THEN parts[1]
    ELSE parts[1] \o "/" \o JoinPath(Tail(parts))

\* path.as_posix()
as_posix(path) == PyText(JoinPath(path.parts))

\* ------------------------------------------------------------ core.py: BasicUploadJobConfigs

\* `sub in bucket` for a str written as the concatenation of its parts; the
\* strings of the model hold "open" and "scratch" as whole parts only.
Contains(bucket, sub) == \E i \in DOMAIN bucket.parts : bucket.parts[i] = sub

\* A mapping that looks for "scratch" before "open".
map_bucket_scratch_first(bucket) ==
    IF bucket.t = "str" /\ Contains(bucket, "scratch") THEN "scratch"
    ELSE IF bucket.t = "str" /\ Contains(bucket, "open") THEN "open"
    ELSE IF bucket.t = "BucketType" THEN bucket.v
    ELSE "private"

\* field_validator("s3_bucket", mode="before"); the default goes through it
\* as well (BaseSettings validates defaults).
map_bucket(bucket) ==
    IF bucket.t = "str" /\ Contains(bucket, "open") THEN "open"
    ELSE IF bucket.t = "str" /\ Contains(bucket, "scratch") THEN "scratch"
    ELSE IF bucket.t = "BucketType" THEN bucket.v
    ELSE "private"

\* field_validator("platform", mode="before") hands anything that is no str
\* to the field's own validation (an instance is kept, a mapping is resolved
\* by its discriminator, the name).
ResolvePlatform(x) ==
    IF x.t = "Platform" THEN x.v
    ELSE CHOOSE p \in Platforms : PlatformName(p) = x.name

\* _PLATFORM_MAP, lines 139-141: the platforms under a key.
_PLATFORM_MAP(key) ==
    { p \in Platforms : upper(Spelling[PlatformAbbreviation(p)]) = key }

\* A lookup that reports the key it looked for.
parse_platform_string_key(input_platform) ==
    IF IsChars(input_platform)
    THEN LET found == _PLATFORM_MAP(upper(input_platform.chars))
         IN  IF found = {}
             THEN Raised("AttributeError",
                         "Unknown Platform: "
                             \o format(upper(input_platform.chars)))
             ELSE Valid(CHOOSE p \in found : TRUE)
    ELSE Valid(ResolvePlatform(input_platform))

\* field_validator("platform", mode="before"), lines 259-274: a str is looked
\* up; anything else is handed to the field's own validation (an instance is
\* kept, a mapping is resolved by its discriminator, the name).
parse_platform_string(input_platform) ==
    IF IsChars(input_platform)
    THEN LET found == _PLATFORM_MAP(upper(input_platform.chars))
         IN  IF found = {}
             THEN Raised("AttributeError",
                         "Unknown Platform: " \o format(input_platform.chars))
             ELSE Valid(CHOOSE p \in found : TRUE)
    ELSE Valid(ResolvePlatform(input_platform))

\* An inference that looks at the platform before the capsule id.
_get_job_type_platform_first(platform, process_capsule_id) ==
    IF platform = "ECEPHYS" THEN "ecephys"
    ELSE IF platform = "SMARTSPIM" THEN "smartspim"
    ELSE IF platform = "SINGLE_PLANE_OPHYS" THEN "singleplane_ophys"
    ELSE IF platform = "MULTIPLANE_OPHYS" THEN "multiplane_ophys"
    ELSE IF process_capsule_id /= None THEN RUN_GENERIC_PIPELINE
    ELSE "register_data"

\* An inference with the two ophys rows of the table exchanged.
_get_job_type_ophys_swapped(platform, process_capsule_id) ==
    IF process_capsule_id /= None THEN RUN_GENERIC_PIPELINE
    ELSE IF platform = "ECEPHYS" THEN "ecephys"
    ELSE IF platform = "SMARTSPIM" THEN "smartspim"
    ELSE IF platform = "SINGLE_PLANE_OPHYS" THEN "multiplane_ophys"
    ELSE IF platform = "MULTIPLANE_OPHYS" THEN "singleplane_ophys"
    ELSE "register_data"

\* _get_job_type, lines 296-323
_get_job_type(platform, process_capsule_id) ==
    IF process_capsule_id /= None THEN RUN_GENERIC_PIPELINE
    ELSE IF platform = "ECEPHYS" THEN "ecephys"
    ELSE IF platform = "SMARTSPIM" THEN "smartspim"
    ELSE IF platform = "SINGLE_PLANE_OPHYS" THEN "singleplane_ophys"
    ELSE IF platform = "MULTIPLANE_OPHYS" THEN "multiplane_ophys"
    ELSE "register_data"

\* build_data_name(label, creation_datetime)
build_data_name(label, creation_datetime) ==
    label \o "_" \o datetime_to_name_string(creation_datetime)

\* computed_field s3_prefix
s3_prefix(self) ==
    build_data_name(PlatformAbbreviation(self.platform) \o "_" \o self.subject_id,
                    self.acq_datetime)

\* [m.modality for m in self.modalities]
ModalityList(modalities) ==
    [i \in DOMAIN modalities |-> modalities[i].modality]

AsModel(cls, obj) == [t |-> cls, obj |-> obj]

\* A default trigger configuration built from the job type alone.
DefaultTriggerKwargs_job_type_only(self) ==
    [ TriggerDefaults EXCEPT
        !.capsule_version = Unset,
        !.results_suffix = Unset ]
    @@ [job_type |-> _get_job_type(self.platform, self.process_capsule_id)]

\* set_trigger_capsule_configs, lines 343-350: the keyword arguments of the
\* default trigger configuration.
DefaultTriggerKwargs(self) ==
    [ TriggerDefaults EXCEPT
        !.capsule_version = Unset,
        !.results_suffix = Unset,
        !.process_capsule_id = self.process_capsule_id,
        !.input_data_mount = self.input_data_mount ]
    @@ [job_type |-> _get_job_type(self.platform, self.process_capsule_id)]

\* An overwrite that fills in only what the trigger configuration lacks.
OverrideTrigger_unset_only(t, self) ==
    [ t EXCEPT
        !.bucket = IF @ = None THEN self.s3_bucket ELSE @,
        !.prefix = IF @ = None THEN s3_prefix(self) ELSE @,
        !.asset_name = IF @ = None THEN s3_prefix(self) ELSE @,
        !.mount = IF @ = None THEN s3_prefix(self) ELSE @,
        !.modalities = PyList(ModalityList(self.modalities)) ]

\* set_trigger_capsule_configs, lines 355-363: the overwrite, by plain
\* attribute assignment (nothing is validated again).
OverrideTrigger(t, self) ==
    [ t EXCEPT
        !.bucket = self.s3_bucket,
        !.prefix = s3_prefix(self),
        !.asset_name = s3_prefix(self),
        !.mount = IF @ = None THEN s3_prefix(self) ELSE @,
        !.modalities = PyList(ModalityList(self.modalities)) ]

\* A warning whenever both are set.
WarnsOnCapsuleId_both_set(self) ==
    /\ self.trigger_capsule_configs /= PyNone
    /\ self.process_capsule_id /= None

\* set_trigger_capsule_configs, lines 333-342: the warning.
WarnsOnCapsuleId(self) ==
    /\ self.trigger_capsule_configs /= PyNone
    /\ self.process_capsule_id /= None
    /\ self.trigger_capsule_configs.obj.process_capsule_id
           /= self.process_capsule_id

\* model_validator(mode="after")
set_trigger_capsule_configs(self) ==
    LET built == IF self.trigger_capsule_configs = PyNone
                 THEN TriggerConfigModel(DefaultTriggerKwargs(self))
                 ELSE Valid(self.trigger_capsule_configs.obj)
    IN  IF ~built.ok THEN built
        ELSE Valid([ self EXCEPT
                       !.trigger_capsule_configs =
                           AsModel("TriggerConfigModel",
                                   OverrideTrigger(built.obj, self)) ])

\* The fields BasicUploadJobConfigs declares, lines 149-231.
BasicUploadJobConfigsFields ==
    { "user_email", "email_notification_types", "project_name",
      "input_data_mount", "process_capsule_id", "s3_bucket", "platform",
      "modalities", "subject_id", "acq_datetime", "metadata_dir",
      "metadata_dir_force", "force_cloud_sync", "metadata_configs",
      "trigger_capsule_configs" }

\* The errors of the declared fields of one BasicUploadJobConfigs input.
\* BasicUploadJobConfigs is a BaseSettings whose model_config sets only
\* use_enum_values, so extra="forbid": a key that is no declared field (the
\* computed s3_prefix included) is rejected.  pydantic collects the errors
\* of all fields, nested ones included.
RECURSIVE ModalitiesErrors(_, _)
ModalitiesErrors(kws, i) ==
    IF i > Len(kws) THEN <<>>
    ELSE ModalityFieldErrors(kws[i], "modalities." \o ToString(i - 1) \o ".")
            \o ModalitiesErrors(kws, i + 1)

\* A mapping is validated as the keyword arguments are.  An instance is kept
\* as it is by the model's own validation (revalidate_instances is "never"),
\* and the model_validator(mode="after"), which wraps that validation, runs
\* on it once more.
TriggerInputResult(t) ==
    IF t.t = "dict" THEN TriggerConfigModel(t.kw)
    ELSE validate_trigger_config(t.obj)

JobFieldErrors(kw) ==
    (IF Len(kw.modalities) < 1
        THEN <<"modalities: List should have at least 1 item after validation, not 0">>
        ELSE ModalitiesErrors(kw.modalities, 1))
    \o (IF _parse_datetime(kw.acq_datetime).ok THEN <<>>
        ELSE _parse_datetime(kw.acq_datetime).errors)
    \o (IF kw.trigger_capsule_configs = PyNone
           \/ TriggerInputResult(kw.trigger_capsule_configs).ok
        THEN <<>>
        ELSE [i \in DOMAIN TriggerInputResult(kw.trigger_capsule_configs).errors |->
                "trigger_capsule_configs." \o
                TriggerInputResult(kw.trigger_capsule_configs).errors[i]])
    \o (IF kw.s3_prefix /= Absent
        THEN <<"s3_prefix: Extra inputs are not permitted">> ELSE <<>>)
    \o ExtraErrors(DOMAIN kw \ (BasicUploadJobConfigsFields \cup {"s3_prefix"}),
                   "")

JobFieldValues(kw) ==
    [ project_name |-> kw.project_name,
      platform |-> parse_platform_string(kw.platform).obj,
      subject_id |-> kw.subject_id,
      acq_datetime |-> _parse_datetime(kw.acq_datetime).obj,
      modalities |->
          [i \in DOMAIN kw.modalities |-> ModalityFieldValues(kw.modalities[i])],
      s3_bucket |-> map_bucket(kw.s3_bucket),
      process_capsule_id |-> kw.process_capsule_id,
      input_data_mount |-> kw.input_data_mount,
      metadata_dir |-> PurePosixPath(kw.metadata_dir),
      metadata_dir_force |-> kw.metadata_dir_force,
      force_cloud_sync |-> kw.force_cloud_sync,
      user_email |-> kw.user_email,
      email_notification_types |-> kw.email_notification_types,
      metadata_configs |-> PyNone,
      trigger_capsule_configs |->
          IF kw.trigger_capsule_configs = PyNone THEN PyNone
          ELSE AsModel("TriggerConfigModel",
                       TriggerInputResult(kw.trigger_capsule_configs).obj) ]

\* handler(all_configs): the fields, then set_trigger_capsule_configs.  An
\* exception that is no ValidationError leaves the validation as it is.
JobHandler(kw) ==
    IF ~parse_platform_string(kw.platform).ok
    THEN parse_platform_string(kw.platform)
    ELSE IF \E i \in DOMAIN kw.modalities :
                ~parse_modality_string(kw.modalities[i].modality).ok
    THEN parse_modality_string(
            kw.modalities[CHOOSE i \in DOMAIN kw.modalities :
                /\ ~parse_modality_string(kw.modalities[i].modality).ok
                /\ \A j \in 1..(i - 1) :
                      parse_modality_string(kw.modalities[j].modality).ok
                ].modality)
    ELSE IF /\ kw.trigger_capsule_configs /= PyNone
       /\ ~TriggerInputResult(kw.trigger_capsule_configs).ok
       /\ TriggerInputResult(kw.trigger_capsule_configs).exc /= "ValidationError"
    THEN TriggerInputResult(kw.trigger_capsule_configs)
    ELSE IF JobFieldErrors(kw) /= <<>>
    THEN ValidationError(JobFieldErrors(kw))
    ELSE set_trigger_capsule_configs(JobFieldValues(kw))

\* fill_in_metadata_configs, lines 405-419
default_metadata_configs(validated_self) ==
    [ directory_to_write_to |-> "stage",
      subject_settings |-> [subject_id |-> validated_self.subject_id],
      procedures_settings |-> [subject_id |-> validated_self.subject_id],
      raw_data_description_settings |->
          [ name |-> s3_prefix(validated_self),
            project_name |-> validated_self.project_name,
            modality |-> ModalityList(validated_self.modalities) ],
      metadata_dir_force |-> validated_self.metadata_dir_force ]

\* The user's metadata_configs as a mapping without its session_settings;
\* none was given: dict().
user_defined_metadata_configs(kw) ==
    IF kw.metadata_configs = PyNone THEN [k \in {} |-> PyNone]
    ELSE [k \in DOMAIN kw.metadata_configs.fields \ {"session_settings"} |->
            kw.metadata_configs.fields[k]]

user_defined_session_settings(kw) ==
    IF kw.metadata_configs = PyNone THEN PyNone
    ELSE IF "session_settings" \in DOMAIN kw.metadata_configs.fields
    THEN kw.metadata_configs.fields.session_settings
    ELSE PyNone

\* An update in which the keys already present are kept.
dict_setdefault(d, other) == d @@ other

\* d.update(other)
dict_update(d, other) == other @@ d

\* The fields of aind_metadata_mapper's JobSettings (a BaseSettings: a key
\* that is no field is rejected).
GatherMetadataJobSettingsFields ==
    { "metadata_service_domain", "subject_settings", "session_settings",
      "acquisition_settings", "raw_data_description_settings",
      "procedures_settings", "processing_settings", "metadata_settings",
      "directory_to_write_to", "metadata_dir", "metadata_dir_force" }

\* GatherMetadataJobSettings.model_validate(configs), its own fields.
GatherMetadataErrors(configs) ==
    IF DOMAIN configs \subseteq GatherMetadataJobSettingsFields THEN <<>>
    ELSE <<"Value error, metadata_configs: Extra inputs are not permitted">>

\* The defaults of job_settings_name of the variants of
\* SessionSettings.job_settings.
SessionVariantNames == {"Bergamo", "Bruker"}

\* Fields a variant requires besides its job_settings_name.
RequiredSessionFields ==
    { "input_source", "experimenter_full_name", "subject_id",
      "imaging_laser_wavelength", "fov_imaging_depth",
      "fov_targeted_structure", "notes" }

\* user_defined_session_settings.get("job_settings", dict())
JobSettingsOf(session_settings) ==
    IF "job_settings" \in DOMAIN session_settings
    THEN session_settings.job_settings
    ELSE [k \in {} |-> PyNone]

\* A relaxation that does not look at job_settings_name.
relaxed_session_any_name(session_settings) ==
    /\ session_settings /= PyNone
    /\ DOMAIN JobSettingsOf(session_settings)
           = {"user_settings_config_file", "job_settings_name"}
    /\ session_settings.job_settings.user_settings_config_file.t
           \in {"str", "PurePosixPath"}
    /\ session_settings.job_settings.job_settings_name.t = "str"

\* fill_in_metadata_configs, lines 430-456: the condition of the relaxed
\* session settings.
relaxed_session(session_settings) ==
    /\ session_settings /= PyNone
    /\ DOMAIN JobSettingsOf(session_settings)
           = {"user_settings_config_file", "job_settings_name"}
    /\ session_settings.job_settings.user_settings_config_file.t
           \in {"str", "PurePosixPath"}
    /\ session_settings.job_settings.job_settings_name.t = "str"
    /\ session_settings.job_settings.job_settings_name.text
           \in SessionVariantNames

\* Full validation of session_settings inside
\* GatherMetadataJobSettings.model_validate: job_settings is a union
\* discriminated by job_settings_name, each variant with required fields.
SessionSettingsErrors(session_settings) ==
    IF session_settings = PyNone THEN <<>>
    ELSE IF "job_settings" \notin DOMAIN session_settings
    THEN <<"Value error, session_settings.job_settings: Field required">>
    ELSE IF \/ "job_settings_name" \notin DOMAIN session_settings.job_settings
            \/ session_settings.job_settings.job_settings_name.t /= "str"
            \/ session_settings.job_settings.job_settings_name.text
                   \notin SessionVariantNames
    THEN <<"Value error, session_settings.job_settings: Unable to extract tag using discriminator 'job_settings_name'">>
    ELSE IF ~(RequiredSessionFields \subseteq DOMAIN session_settings.job_settings)
    THEN <<"Value error, session_settings.job_settings: Field required">>
    ELSE <<>>

\* SessionSettings.model_construct(job_settings={...}) of the two values, and
\* the SessionSettings that full validation returns.
SessionSettings(session_settings, validated) ==
    IF session_settings = PyNone THEN PyNone
    ELSE [ t |-> "SessionSettings",
           validated |-> validated,
           job_settings |-> session_settings.job_settings ]

\* model_validator(mode="wrap")
fill_in_metadata_configs(kw) ==
    LET validated_self == JobHandler(kw)
    IN  IF ~validated_self.ok THEN validated_self
        ELSE
        LET metadata_dir ==
                IF validated_self.obj.metadata_dir = PyNone THEN PyNone
                ELSE as_posix(validated_self.obj.metadata_dir)
            configs ==
                dict_update(user_defined_metadata_configs(kw),
                            default_metadata_configs(validated_self.obj))
            session == user_defined_session_settings(kw)
            result(session_settings) ==
                Valid([ validated_self.obj EXCEPT
                          !.metadata_configs =
                              [ metadata_dir |-> metadata_dir,
                                session_settings |-> session_settings ]
                              @@ configs ])
        IN  IF GatherMetadataErrors(configs) /= <<>>
            THEN ValidationError(GatherMetadataErrors(configs))
            ELSE IF relaxed_session(session)
            THEN result(SessionSettings(session, FALSE))
            ELSE IF SessionSettingsErrors(session) /= <<>>
            THEN ValidationError(SessionSettingsErrors(session))
            ELSE result(SessionSettings(session, TRUE))

\* BasicUploadJobConfigs(**kw), BasicUploadJobConfigs.model_validate(kw),
\* with the number of warnings it logs.
BasicUploadJobConfigs(kw) ==
    fill_in_metadata_configs(kw)
    @@ [warnings |->
          IF JobHandler(kw).ok /\ WarnsOnCapsuleId(JobFieldValues(kw))
          THEN 1 ELSE 0]

\* ------------------------------------------------------------ core.py: the caller's objects

\* Python objects live in a store, a function from addresses to objects; a field
\* of an object that holds another mutable object holds a reference to it.
Ref(a) == [t |-> "ref", a |-> a]

\* The fields that hold mutable objects.
RefFields == {"metadata_configs", "session_settings", "trigger_capsule_configs"}

\* The entries of an object: of a mapping or a model the object itself, of a
\* metadata_configs its fields.
Entries(o) == IF "fields" \in DOMAIN o THEN o.fields ELSE o

WithEntries(o, entries) ==
    IF "fields" \in DOMAIN o THEN [o EXCEPT !.fields = entries] ELSE entries

\* The addresses an object refers to.
RefsOf(o) ==
    { Entries(o)[f].a :
        f \in { g \in DOMAIN Entries(o) \cap RefFields :
                  Entries(o)[g].t = "ref" } }

\* The caller's objects before the call: the raw mapping `input` and, when
\* it has them, its metadata_configs, the session_settings in it, and the
\* TriggerConfigModel object.
Store(kw) ==
    LET mc == kw.metadata_configs
        hasSS == /\ mc /= PyNone
                 /\ "session_settings" \in DOMAIN mc.fields
                 /\ mc.fields.session_settings /= PyNone
        tr == kw.trigger_capsule_configs
    IN  ("input" :>
            [ kw EXCEPT
                !.metadata_configs =
                    IF mc /= PyNone THEN Ref("metadata_configs") ELSE @,
                !.trigger_capsule_configs =
                    IF tr.t = "TriggerConfigModel"
                    THEN Ref("trigger_capsule_configs") ELSE @ ])
        @@ (IF mc /= PyNone
            THEN "metadata_configs" :>
                    (IF hasSS
                     THEN [mc EXCEPT !.fields.session_settings =
                                        Ref("session_settings")]
                     ELSE mc)
            ELSE [a \in {} |-> PyNone])
        @@ (IF hasSS
            THEN "session_settings" :> mc.fields.session_settings
            ELSE [a \in {} |-> PyNone])
        @@ (IF tr.t = "TriggerConfigModel"
            THEN "trigger_capsule_configs" :> tr.obj
            ELSE [a \in {} |-> PyNone])

\* An address the store does not use yet.
RECURSIVE Fresh(_, _)
Fresh(h, a) == IF a \in DOMAIN h THEN Fresh(h, a \o "'") ELSE a

\* A copy that is the object itself.
deepcopy_same(h, a) == [h |-> h, a |-> a]

\* copy.deepcopy(x), x.model_copy(deep=True), x.model_dump(): new objects for
\* x and for everything x refers to.  The result is the store and the
\* address of the copy.
deepcopy(h, a) ==
    LET direct == {a} \cup RefsOf(h[a])
        all == direct \cup UNION { RefsOf(h[b]) : b \in direct }
        new == [r \in all |-> Fresh(h, r)]
        copy(o) ==
            WithEntries(o,
                [ f \in DOMAIN Entries(o) |->
                    IF f \in RefFields /\ Entries(o)[f].t = "ref"
                    THEN Ref(new[Entries(o)[f].a])
                    ELSE Entries(o)[f] ])
    IN  [ h |-> [ b \in DOMAIN h \cup { new[r] : r \in all } |->
                    IF b \in DOMAIN h THEN h[b]
                    ELSE copy(h[CHOOSE r \in all : new[r] = b]) ],
          a |-> new[a] ]

\* del d[key]
delete(h, a, key) ==
    [ h EXCEPT ![a] =
        WithEntries(h[a],
            [f \in DOMAIN Entries(h[a]) \ {key} |-> Entries(h[a])[f]]) ]

\* BasicUploadJobConfigs.model_validate(input), as it acts on the objects:
\* fill_in_metadata_configs, lines 370-396, the handler, which runs
\* validate_trigger_config on the TriggerConfigModel object it is handed, and
\* set_trigger_capsule_configs, lines 343-364.  The result is the store
\* after the call and the address of the job's trigger configuration.
model_validate(kw) ==
    LET \* lines 355-364: the overwrite, on the copy.
        assign(c) ==
            [ h |-> [ c.h EXCEPT ![c.a] =
                        OverrideTrigger(@, JobFieldValues(kw)) ],
              a |-> c.a ]
        \* validate_trigger_config on the object at t, then lines 351-353.
        trigger_step(h, t) ==
            IF ~validate_trigger_config(h[t]).ok THEN [h |-> h, a |-> None]
            ELSE IF ~JobHandler(kw).ok
            THEN [ h |-> [h EXCEPT ![t] = validate_trigger_config(h[t]).obj],
                   a |-> None ]
            ELSE assign(deepcopy(
                    [h EXCEPT ![t] = validate_trigger_config(h[t]).obj], t))
        \* line 400: handler(all_configs)
        handler(h, all_configs) ==
            IF h[all_configs].trigger_capsule_configs.t = "ref"
            THEN trigger_step(h, h[all_configs].trigger_capsule_configs.a)
            ELSE [h |-> h, a |-> None]
        \* lines 392-399, mc the address of user_defined_metadata_configs
        session_step(h, all_configs, mc) ==
            IF /\ "session_settings" \in DOMAIN h[mc].fields
               /\ h[mc].fields.session_settings /= PyNone
            THEN handler(
                    delete(deepcopy(h, h[mc].fields.session_settings.a).h,
                           mc, "session_settings"),
                    all_configs)
            ELSE handler(h, all_configs)
        \* lines 379-391, c the store and the address of the copy of line 370
        metadata_step(c) ==
            IF c.h[c.a].metadata_configs /= PyNone
            THEN session_step(
                    delete(deepcopy(c.h, c.h[c.a].metadata_configs.a).h,
                           c.a, "metadata_configs"),
                    c.a,
                    deepcopy(c.h, c.h[c.a].metadata_configs.a).a)
            ELSE handler(c.h, c.a)
    IN  metadata_step(deepcopy(Store(kw), "input"))

\* ------------------------------------------------------------ serialization

ModalityDoc(m) ==
    [t |-> "dict", name |-> ModalityName(m), abbreviation |-> ModalityAbbreviation(m)]

PlatformDoc(p) ==
    [t |-> "dict", name |-> PlatformName(p), abbreviation |-> PlatformAbbreviation(p)]

\* The JSON object of a ModalityConfigs: its fields and its computed field.
ModalityConfigsDoc(self) ==
    [ modality |-> ModalityDoc(self.modality),
      source |-> self.source,
      compress_raw_data |-> PyBool(self.compress_raw_data),
      extra_configs |-> self.extra_configs,
      slurm_settings |-> self.slurm_settings,
      output_folder_name |-> output_folder_name(self) ]

\* A value no JSON serializer knows: the FieldInfo inside the tuple that a
\* TriggerConfigModel built without capsule_version or results_suffix holds.
Unserializable(t) ==
    t.capsule_version.t = "tuple" \/ t.results_suffix.t = "tuple"

TriggerDoc(t) ==
    [ t EXCEPT
        !.modalities =
            IF @ = PyNone THEN @
            ELSE PyList([i \in DOMAIN @.items |-> ModalityDoc(@.items[i])]) ]

\* The JSON object of a BasicUploadJobConfigs: its fields and its computed
\* field s3_prefix.
JobDoc(self) ==
    [ project_name |-> self.project_name,
      platform |-> PlatformDoc(self.platform),
      subject_id |-> self.subject_id,
      acq_datetime |-> PyText(isoformat(self.acq_datetime)),
      modalities |->
          [i \in DOMAIN self.modalities |-> ModalityConfigsDoc(self.modalities[i])],
      s3_bucket |-> [t |-> "str", parts |-> <<self.s3_bucket>>],
      process_capsule_id |-> self.process_capsule_id,
      input_data_mount |-> self.input_data_mount,
      metadata_dir |->
          IF self.metadata_dir = PyNone THEN PyNone
          ELSE PathText(self.metadata_dir.parts),
      metadata_dir_force |-> self.metadata_dir_force,
      force_cloud_sync |-> self.force_cloud_sync,
      user_email |-> self.user_email,
      email_notification_types |-> self.email_notification_types,
      metadata_configs |-> [t |-> "dict", fields |-> self.metadata_configs],
      trigger_capsule_configs |->
          [t |-> "dict", kw |-> TriggerDoc(self.trigger_capsule_configs.obj)],
      s3_prefix |-> s3_prefix(self) ]

\* obj.model_dump_json()
Dump(cls, self) ==
    IF cls = "ModalityConfigs" THEN [ok |-> TRUE, doc |-> ModalityConfigsDoc(self)]
    ELSE IF Unserializable(self.trigger_capsule_configs.obj)
    THEN Raised("PydanticSerializationError",
                "Unable to serialize unknown type: <class 'pydantic.fields.FieldInfo'>")
    ELSE [ok |-> TRUE, doc |-> JobDoc(self)]

\* cls.model_validate_json(doc)
Load(cls, doc) ==
    IF cls = "ModalityConfigs" THEN ModalityConfigs(doc)
    ELSE BasicUploadJobConfigs(doc)

\* ------------------------------------------------------------ core.py: SubmitJobRequest

\* A set of EmailNotificationType values (use_enum_values: their strings).
EmailSet(v) == [t |-> "set", v |-> v]

\* upload_jobs is written as runs: `count` references to the same job each.
Run(job, count) == [job |-> job, count |-> count]

RECURSIVE len(_)
len(upload_jobs) ==
    IF upload_jobs = <<>> THEN 0
    ELSE Head(upload_jobs).count + len(Tail(upload_jobs))

min_items == 1

max_items == 1000

\* upload_jobs: List[BasicUploadJobConfigs], min_items=1, max_items=1000
UploadJobsErrors(upload_jobs) ==
    IF len(upload_jobs) < min_items
    THEN <<"upload_jobs: List should have at least 1 item after validation, not "
             \o ToString(len(upload_jobs))>>
    ELSE IF len(upload_jobs) > max_items
    THEN <<"upload_jobs: List should have at most 1000 items after validation, not "
             \o ToString(len(upload_jobs))>>
    ELSE <<>>

\* A propagation that sets the batch's values on every job.
propagate_to_all(upload_job, global_email_user, global_email_notification_types) ==
    [ upload_job EXCEPT
        !.user_email = global_email_user,
        !.email_notification_types = global_email_notification_types ]

\* propagate_email_settings, lines 520-525: the body of the loop.
propagate_to(upload_job, global_email_user, global_email_notification_types) ==
    [ upload_job EXCEPT
        !.user_email =
            IF global_email_user /= None /\ @ = None
            THEN global_email_user ELSE @,
        !.email_notification_types =
            IF @ = PyNone THEN global_email_notification_types ELSE @ ]

\* model_validator(mode="after")
propagate_email_settings(self) ==
    [ self EXCEPT
        !.upload_jobs =
            [i \in DOMAIN @ |->
                Run(propagate_to(@[i].job, self.user_email,
                                 self.email_notification_types),
                    @[i].count)] ]

\* all_configs.model_dump(exclude=...), lines 371-377: what
\* fill_in_metadata_configs makes of an input that is a BasicUploadJobConfigs
\* (a job in the upload_jobs of a request): a mapping of its field values,
\* nested models as mappings, without s3_prefix and output_folder_name.
model_dump(self) ==
    [ JobDoc(self) EXCEPT
        !.acq_datetime = self.acq_datetime,
        !.modalities =
            [i \in DOMAIN @ |-> [@[i] EXCEPT !.output_folder_name = Absent]],
        !.metadata_dir = self.metadata_dir,
        !.metadata_configs =
            [ t |-> "dict",
              fields |->
                  [ self.metadata_configs EXCEPT
                      !.session_settings =
                          IF @ = PyNone THEN PyNone
                          ELSE [t |-> "dict", job_settings |-> @.job_settings] ] ],
        !.s3_prefix = Absent ]

\* Validation of one entry of upload_jobs: the entry is a
\* BasicUploadJobConfigs, which fill_in_metadata_configs dumps and validates
\* anew.
UploadJob(upload_job) == BasicUploadJobConfigs(model_dump(upload_job))

\* The number of entries before run i.
RECURSIVE EntriesBefore(_, _)
EntriesBefore(upload_jobs, i) ==
    IF i = 1 THEN 0
    ELSE EntriesBefore(upload_jobs, i - 1) + upload_jobs[i - 1].count

\* The errors of the entries of run i, each under its index in the list;
\* results[i] is what the validation of the job of run i gives.
RunErrors(upload_jobs, results, i) ==
    [ n \in 1..(IF results[i].ok THEN 0
                ELSE upload_jobs[i].count * Len(results[i].errors)) |->
        "upload_jobs."
          \o ToString(EntriesBefore(upload_jobs, i)
                        + ((n - 1) \div Len(results[i].errors)))
          \o "." \o results[i].errors[((n - 1) % Len(results[i].errors)) + 1] ]

RECURSIVE EntriesErrors(_, _, _)
EntriesErrors(upload_jobs, results, i) ==
    IF i > Len(upload_jobs) THEN <<>>
    ELSE RunErrors(upload_jobs, results, i)
            \o EntriesErrors(upload_jobs, results, i + 1)

\* SubmitJobRequest(**kw).  An entry that raises something other than a
\* ValidationError ends the construction with it; the length of the list is
\* checked as the entries are counted (too long) and once all are valid (too
\* short).
SubmitJobRequest(kw) ==
    LET validate(results) ==
            LET Raises(i) ==
                    /\ EntriesBefore(kw.upload_jobs, i) <= max_items
                    /\ ~results[i].ok
                    /\ results[i].exc /= "ValidationError"
            IN  IF \E i \in DOMAIN results : Raises(i)
                THEN [ f \in {"ok", "exc", "errors"} |->
                         results[CHOOSE i \in DOMAIN results :
                             Raises(i) /\ \A j \in 1..(i - 1) : ~Raises(j)][f] ]
                ELSE IF len(kw.upload_jobs) > max_items
                THEN ValidationError(UploadJobsErrors(kw.upload_jobs))
                ELSE IF EntriesErrors(kw.upload_jobs, results, 1) /= <<>>
                THEN ValidationError(EntriesErrors(kw.upload_jobs, results, 1))
                ELSE IF UploadJobsErrors(kw.upload_jobs) /= <<>>
                THEN ValidationError(UploadJobsErrors(kw.upload_jobs))
                ELSE Valid(propagate_email_settings(
                        [ user_email |-> kw.user_email,
                          email_notification_types |->
                              IF kw.email_notification_types = Unset
                              THEN EmailSet({"fail"})
                              ELSE kw.email_notification_types,
                          upload_jobs |->
                              [ i \in DOMAIN results |->
                                  Run(results[i].obj,
                                      kw.upload_jobs[i].count) ] ]))
    IN  validate([ i \in DOMAIN kw.upload_jobs |->
                     UploadJob(kw.upload_jobs[i].job) ])

\* ------------------------------------------------------------ s3_upload_configs.py

\* upload_jobs: "Max of 20 at a time."
S3UploadJobsDocumentedMax == 20

S3UploadJobs_min_items == 1

S3UploadJobs_max_items == 100

\* S3UploadJobConfigs(**kw): user_email and s3_bucket are required, and
\* s3_bucket is scratch or archive.
S3UploadJobConfigs(kw) ==
    LET errors ==
            (IF kw.user_email = None
                THEN <<"user_email: Field required">> ELSE <<>>)
            \o (IF kw.s3_bucket \notin {"scratch", "archive"}
                THEN <<"s3_bucket: Input should be <BucketType.SCRATCH: 'scratch'> or <BucketType.ARCHIVE: 'archive'>">>
                ELSE <<>>)
    IN  IF errors /= <<>> THEN ValidationError(errors) ELSE Valid(kw)

\* S3UploadSubmitJobRequest(**kw), its upload_jobs being S3UploadJobConfigs
\* objects (kept as they are: the class has no validator of its own).
S3UploadSubmitJobRequest(kw) ==
    IF len(kw.upload_jobs) > S3UploadJobs_max_items
    THEN ValidationError(
            <<"upload_jobs: List should have at most "
                \o ToString(S3UploadJobs_max_items)
                \o " items after validation, not "
                \o ToString(len(kw.upload_jobs))>>)
    ELSE IF len(kw.upload_jobs) < S3UploadJobs_min_items
    THEN ValidationError(
            <<"upload_jobs: List should have at least "
                \o ToString(S3UploadJobs_min_items)
                \o " item after validation, not "
                \o ToString(len(kw.upload_jobs))>>)
    ELSE Valid(propagate_email_settings(
            [ user_email |-> kw.user_email,
              email_notification_types |->
                  IF kw.email_notification_types = Unset
                  THEN EmailSet({"fail"})
                  ELSE kw.email_notification_types,
              upload_jobs |-> kw.upload_jobs ]))

\* ------------------------------------------------------------ the caller's inputs

\* What TriggerConfigModel(...) sees of a keyword that is not passed.
TriggerNotPassed ==
    [ TriggerDefaults EXCEPT !.capsule_version = Unset, !.results_suffix = Unset ]

TriggerPassed(kw) ==
    { f \in DOMAIN TriggerNotPassed : kw[f] /= TriggerNotPassed[f] }

TriggerKwargs ==
    { kw \in
        [ job_type : {"ecephys", RUN_GENERIC_PIPELINE},
          bucket : {None, "my-bucket"},
          prefix : {None, "ecephys_0000"},
          asset_name : {None, "my_asset"},
          mount : {None, "custom_mount"},
          input_data_asset_id :
              {PyNone, PyStr(<<"0000">>), PyStr(<<"0000", "0001">>)},
          input_data_mount :
              {PyNone, PyStr(<<"mount1">>), PyStr(<<"mount1", "mount2">>)},
          process_capsule_id : {None, "abc-123"},
          capsule_version : {Unset, PyText("1.0")},
          results_suffix : {Unset, PyText("processed")},
          input_data_asset_name : {None, "ecephys_session"},
          aind_data_transfer_version : {None},
          modalities : {PyNone},
          capsule_id : {None, "0101"},
          input_data_point : {PyNone, PyStr(<<"point">>)} ] :
        Cardinality(TriggerPassed(kw)) <= MaxTriggerKwargs }

\* Keyword arguments of TriggerConfigModel(...) whose input_data_asset_id and
\* input_data_mount come in every form the annotation
\* Optional[Union[str, List[str]]] admits.
TriggerKwargsAnyForm ==
    { kw \in
        [ job_type : {"ecephys", RUN_GENERIC_PIPELINE},
          bucket : {None, "my-bucket"},
          prefix : {None, "ecephys_0000"},
          asset_name : {None},
          mount : {None},
          input_data_asset_id :
              {PyNone, PyStr(<<"0000">>), PyStr(<<"0000", "0001">>),
               PyList(<<"0000">>), PyList(<<"0000", "0001">>)},
          input_data_mount :
              {PyNone, PyStr(<<"mount1">>), PyStr(<<"mount1", "mount2">>),
               PyList(<<"mount1">>), PyList(<<"mount1", "mount2">>)},
          process_capsule_id : {None, "abc-123"},
          capsule_version : {Unset},
          results_suffix : {Unset},
          input_data_asset_name : {None, "ecephys_session"},
          aind_data_transfer_version : {None},
          modalities : {PyNone},
          capsule_id : {None, "0101"},
          input_data_point :
              {PyNone, PyStr(<<"point">>), PyStr(<<"point1", "point2">>)} ] :
        Cardinality(TriggerPassed(kw)) <= MaxTriggerKwargs }

ModalityRoster == <<"BEHAVIOR_VIDEOS", "ECEPHYS", "FIB">>

ModalityKw(m, compress, folder) ==
    [ modality |-> [t |-> "Modality", v |-> m],
      source |-> "dir/data_set_2",
      compress_raw_data |-> compress,
      extra_configs |-> None,
      slurm_settings |-> PyNone,
      output_folder_name |-> folder ]

ModalityKwargs ==
    { ModalityKw(m, c, f) :
        m \in Modalities,
        c \in {PyNone, PyBool(TRUE), PyBool(FALSE)},
        f \in {Absent, "incorrect"} }

\* The modalities lists of the jobs: the first n entries of the roster.
ModalityKwLists ==
    { [i \in 1..n |-> ModalityKw(ModalityRoster[i], PyNone, Absent)] :
        n \in 0..(IF MaxModalities < Len(ModalityRoster)
                  THEN MaxModalities ELSE Len(ModalityRoster)) }

JobNotPassed ==
    [ s3_bucket |-> Unset,
      process_capsule_id |-> None,
      input_data_mount |-> PyNone,
      trigger_capsule_configs |-> PyNone ]

JobPassed(kw) == { f \in DOMAIN JobNotPassed : kw[f] /= JobNotPassed[f] }

\* The keyword arguments of a job that is handed `trigger` (PyNone: none).
JobKwargs(trigger) ==
    { kw \in
        [ project_name : {"Behavior Platform"},
          platform : {[t |-> "Platform", v |-> p] : p \in Platforms},
          subject_id : {"123456", "654321"},
          acq_datetime : Datetimes,
          modalities : ModalityKwLists,
          s3_bucket : {Unset, [t |-> "str", parts |-> <<"open">>],
                       [t |-> "str", parts |-> <<"some_bucket2">>]},
          process_capsule_id : {None, "abc-123", "def-456"},
          input_data_mount : {PyNone, PyStr(<<"job_mount">>)},
          trigger_capsule_configs : {trigger},
          metadata_dir : {PyNone},
          metadata_dir_force : {FALSE},
          force_cloud_sync : {FALSE},
          user_email : {None},
          email_notification_types : {PyNone},
          metadata_configs : {PyNone},
          s3_prefix : {Absent} ] :
        Cardinality(JobPassed(kw)) <= MaxJobKwargs }

\* The example job of the tests.
ExampleJobKwargs ==
    [ project_name |-> "Behavior Platform",
      platform |-> [t |-> "Platform", v |-> "BEHAVIOR"],
      subject_id |-> "123456",
      acq_datetime |-> datetime(2020, 10, 13, 13, 10, 10),
      modalities |-> <<ModalityKw("BEHAVIOR_VIDEOS", PyNone, Absent)>>,
      s3_bucket |-> Unset,
      process_capsule_id |-> None,
      input_data_mount |-> PyNone,
      trigger_capsule_configs |-> PyNone,
      metadata_dir |-> PyNone,
      metadata_dir_force |-> FALSE,
      force_cloud_sync |-> FALSE,
      user_email |-> None,
      email_notification_types |-> PyNone,
      metadata_configs |-> PyNone,
      s3_prefix |-> Absent ]

\* Bucket designators: strings with and without "open" and "scratch",
\* BucketType members, None.
BucketInputs ==
    { Unset, PyNone,
      [t |-> "str", parts |-> <<"open">>],
      [t |-> "str", parts |-> <<"aind-", "scratch", "-data-", "open">>],
      [t |-> "str", parts |-> <<"aind-", "scratch", "-data">>],
      [t |-> "str", parts |-> <<"private">>],
      [t |-> "str", parts |-> <<"some_bucket2">>],
      [t |-> "BucketType", v |-> "open"],
      [t |-> "BucketType", v |-> "scratch"],
      [t |-> "BucketType", v |-> "private"] }

\* session_settings a user may put in metadata_configs.
JobSettingsInputs ==
    { [ user_settings_config_file |-> PyText("session_settings.json"),
        job_settings_name |-> PyText("Bergamo") ],
      [ user_settings_config_file |-> PyText("session_settings.json"),
        job_settings_name |-> PyText("NotASession") ],
      [ user_settings_config_file |-> PyNone,
        job_settings_name |-> PyText("Bergamo") ],
      [ user_settings_config_file |-> PyText("session_settings.json"),
        job_settings_name |-> PyText("Bergamo"),
        input_source |-> PyText("some_directory") ],
      [ user_settings_config_file |-> PyText("session_settings.json") ],
      [ user_settings_config_file |-> PyNone,
        job_settings_name |-> PyText("Bergamo"),
        input_source |-> PyText("some_directory"),
        experimenter_full_name |-> PyText("John Apple"),
        subject_id |-> PyText("12345"),
        imaging_laser_wavelength |-> PyText("560"),
        fov_imaging_depth |-> PyText("120"),
        fov_targeted_structure |-> PyText("Bregma"),
        notes |-> PyNone ] }

SessionSettingsInputs ==
    { [t |-> "dict"] }
    \cup { [t |-> "dict", job_settings |-> js] : js \in JobSettingsInputs }

\* metadata_configs a user may give: a GatherMetadataJobSettings, mappings
\* with keys the job computes and keys it does not, a key that is no field,
\* and mappings with session_settings.
MetadataConfigsInputs ==
    { PyNone,
      [ t |-> "GatherMetadataJobSettings",
        fields |-> [ directory_to_write_to |-> "/some/path/",
                     metadata_dir |-> PyNone,
                     metadata_dir_force |-> FALSE,
                     session_settings |-> PyNone ] ],
      [ t |-> "dict",
        fields |-> [ subject_settings |-> [subject_id |-> "999999"],
                     metadata_dir_force |-> TRUE,
                     metadata_dir |-> PyText("user/dir") ] ],
      [ t |-> "dict",
        fields |-> [ raw_data_description_settings |->
                         [ name |-> "user_name",
                           project_name |-> "User Project",
                           modality |-> <<"FIB">> ],
                     processing_settings |-> [pipeline_process |-> "user"] ] ],
      [ t |-> "dict", fields |-> [not_a_field |-> "x"] ] }
    \cup { [t |-> "dict", fields |-> [session_settings |-> ss]] :
             ss \in SessionSettingsInputs }

\* trigger_capsule_configs given as a mapping: with capsule_version and
\* results_suffix of its own; with input data assets as well; with a bucket
\* and a prefix of its own.
ExplicitTriggerMapping ==
    [ t |-> "dict",
      kw |-> [ TriggerNotPassed EXCEPT
                 !.capsule_version = PyText("1.0"),
                 !.results_suffix = PyText("processed") ]
             @@ [job_type |-> "ecephys"] ]

InputAssetsTriggerMapping ==
    [ t |-> "dict",
      kw |-> [ ExplicitTriggerMapping.kw EXCEPT
                 !.input_data_asset_id = PyStr(<<"0000", "0001">>),
                 !.input_data_mount = PyStr(<<"mount1", "mount2">>),
                 !.input_data_asset_name = "ecephys_session" ] ]

RegistrationTriggerMapping ==
    [ t |-> "dict",
      kw |-> [ ExplicitTriggerMapping.kw EXCEPT
                 !.bucket = "my-bucket",
                 !.prefix = "ecephys_0000" ] ]

TriggerMappings ==
    { ExplicitTriggerMapping, InputAssetsTriggerMapping,
      RegistrationTriggerMapping }

\* TriggerConfigModel objects of the caller's.
TriggerObjects ==
    { AsModel("TriggerConfigModel", TriggerConfigModel(kw).obj) :
        kw \in { ExplicitTriggerMapping.kw, RegistrationTriggerMapping.kw,
                 [ExplicitTriggerMapping.kw EXCEPT !.mount = "custom_mount"],
                 [ExplicitTriggerMapping.kw EXCEPT
                     !.modalities = PyList(<<[t |-> "Modality", v |-> "FIB"]>>)] } }

\* Jobs that differ from the example job in at most MaxJobKwargs keywords.
JobKwargsWithSettings ==
    { kw \in
        [ project_name : {"Behavior Platform"},
          platform : {[t |-> "Platform", v |-> "BEHAVIOR"]},
          subject_id : {"123456", "654321"},
          acq_datetime : {datetime(2020, 10, 13, 13, 10, 10)},
          modalities : ModalityKwLists,
          s3_bucket : BucketInputs,
          process_capsule_id : {None},
          input_data_mount : {PyNone},
          trigger_capsule_configs : {PyNone} \cup TriggerMappings,
          metadata_dir :
              {PyNone, PathText(<<"metadata", "dir">>),
               PathText(<<".", "metadata", "", "dir", "">>)},
          metadata_dir_force : BOOLEAN,
          force_cloud_sync : {FALSE},
          user_email : {None},
          email_notification_types : {PyNone},
          metadata_configs : MetadataConfigsInputs,
          s3_prefix : {Absent} ] :
        Cardinality({f \in DOMAIN kw : kw[f] /= ExampleJobKwargs[f]})
            <= MaxJobKwargs }

\* The jobs of a batch: the example job with a trigger configuration that
\* names its capsule_version and results_suffix, with and without email
\* settings of its own and with and without session settings; the example
\* job as it is; the example job with input data assets.
BatchJobs ==
    { BasicUploadJobConfigs(
          [ ExampleJobKwargs EXCEPT
              !.trigger_capsule_configs = ExplicitTriggerMapping,
              !.user_email = e,
              !.email_notification_types = n ]).obj :
        e \in {None, "job@example.com"},
        n \in {PyNone, EmailSet({"begin", "end"})} }
    \cup
    { BasicUploadJobConfigs(
          [ ExampleJobKwargs EXCEPT !.trigger_capsule_configs = t ]).obj :
        t \in {PyNone, InputAssetsTriggerMapping} }

\* The lists of k distinct jobs, the last one repeated so that the list has
\* k, max_items or max_items + 1 entries.
BatchListsOf(k) ==
    IF k = 0 THEN { <<>> }
    ELSE { [i \in 1..k |-> Run(jobs[i], IF i < k THEN 1 ELSE n)] :
             jobs \in [1..k -> BatchJobs],
             n \in {1, max_items - k + 1, max_items - k + 2} }

SubmitJobRequestKwargs ==
    [ user_email : {None, "batch@example.com"},
      email_notification_types : {Unset, EmailSet({"all"}), EmailSet({})},
      upload_jobs : UNION { BatchListsOf(k) : k \in 0..MaxDistinctJobs } ]

\* example_scratch_configs and example_archive_configs, with and without
\* notification types of their own.
S3UploadJobs ==
    { S3UploadJobConfigs(
          [ user_email |-> "anna.apple@acme.co",
            email_notification_types |-> n,
            s3_bucket |-> b,
            input_source |-> PathText(<<"dir", "data_set_2">>),
            force_cloud_sync |-> FALSE ]).obj :
        b \in {"scratch", "archive"}, n \in {PyNone, EmailSet({"begin"})} }

\* Lists of no job, and of one job or two, the last one repeated so that the
\* list has as many entries as the description or max_items allow, or one
\* more.
S3UploadJobLists ==
    { <<>> }
    \cup { <<Run(job, n)>> :
             job \in S3UploadJobs,
             n \in { 1, S3UploadJobsDocumentedMax, S3UploadJobsDocumentedMax + 1,
                     S3UploadJobs_max_items, S3UploadJobs_max_items + 1 } }
    \cup { <<Run(first, 1), Run(job, n)>> :
             first \in S3UploadJobs, job \in S3UploadJobs,
             n \in { 1, S3UploadJobsDocumentedMax - 1, S3UploadJobsDocumentedMax,
                     S3UploadJobs_max_items - 1, S3UploadJobs_max_items } }

S3UploadSubmitJobRequestKwargs ==
    [ user_email : {None, "batch@example.com"},
      email_notification_types : {Unset, EmailSet({"all"})},
      upload_jobs : S3UploadJobLists ]

\* Texts of timestamps.  The fields are written out as digits, so that a
\* text may also carry a month 13, an hour 25 or a 30th of February.
D2(n) == <<DigitChars[(n \div 10) + 1], DigitChars[(n % 10) + 1]>>

D4(n) == D2(n \div 100) \o D2(n % 100)

D1(n) == IF n < 10 THEN <<DigitChars[n + 1]>> ELSE D2(n)

\* YYYY-MM-DD HH:mm:ss, with `dash` between the fields of the date, `sep`
\* between date and time and `tail` at the end.
IsoText(f, dash, sep, tail) ==
    D4(f[1]) \o <<dash>> \o D2(f[2]) \o <<dash>> \o D2(f[3]) \o <<sep>>
        \o D2(f[4]) \o <<":">> \o D2(f[5]) \o <<":">> \o D2(f[6]) \o tail

\* M/D/YYYY H:mm:ss AM|PM, the month, day and hour with or without a
\* leading zero, `suffix` for the AM or PM.
UsText(f, padded, suffix) ==
    (IF padded THEN D2(f[2]) ELSE D1(f[2])) \o <<"/">>
        \o (IF padded THEN D2(f[3]) ELSE D1(f[3])) \o <<"/">> \o D4(f[1])
        \o <<" ">> \o (IF padded THEN D2(f[4]) ELSE D1(f[4]))
        \o <<":">> \o D2(f[5]) \o <<":">> \o D2(f[6]) \o suffix

\* Year, month, day, hour, minute, second of the timestamps of the tests,
\* of midnight and noon, and of texts that denote no timestamp.
TimestampFields ==
    { <<2020, 10, 13, 13, 10, 10>>, <<2020, 5, 23, 9, 5, 3>>,
      <<2020, 1, 2, 0, 4, 5>>, <<2020, 2, 29, 12, 0, 0>>,
      <<2020, 12, 31, 23, 59, 59>> }

WrittenFields ==
    TimestampFields
    \cup { <<2020, 13, 13, 13, 10, 10>>, <<2021, 2, 29, 1, 10, 10>>,
           <<2020, 10, 13, 25, 10, 10>>, <<2020, 10, 13, 1, 60, 10>>,
           <<2020, 10, 0, 1, 10, 10>>, <<0, 10, 13, 1, 10, 10>> }

\* The 12-hour clock face of an hour.
ClockFace(f) ==
    [f EXCEPT ![4] = IF f[4] % 12 = 0 THEN 12 ELSE f[4] % 12]

AmPm == { <<" ", "A", "M">>, <<" ", "P", "M">>, <<" ", "a", "m">>, <<" ", "p", "M">> }

\* Strings a caller may give for acq_datetime.
DatetimeStrings ==
    { IsoText(f, dash, sep, tail) :
        f \in WrittenFields, dash \in {"-", "/"}, sep \in {" ", "T", "|"},
        tail \in {<<>>, <<"Z">>, <<"\n">>} }
    \cup
    { UsText(f, padded, suffix) :
        f \in WrittenFields \cup { ClockFace(g) : g \in TimestampFields },
        padded \in BOOLEAN,
        suffix \in AmPm \cup {<<>>, <<" ", "P", "M", "\n">>} }
    \cup { <<>> }

\* Ways of writing an abbreviation: as it is, in upper case, in lower case,
\* with "_" for "-", and with a space behind it.
lower(chars) ==
    [i \in DOMAIN chars |->
        IF \E k \in DOMAIN UpperCase : UpperCase[k] = chars[i]
        THEN LowerCase[CHOOSE k \in DOMAIN UpperCase : UpperCase[k] = chars[i]]
        ELSE chars[i]]

Writings(chars) ==
    { chars, upper(chars), lower(chars), replace(chars, "-", "_"),
      replace(upper(chars), "-", "_"), chars \o <<" ">> }

\* Strings that are no abbreviation of either taxonomy.
UnknownStrings == { <<"M", "I", "S", "S", "I", "N", "G">>, <<"a", "b", "c", "d", "e", "f">>, <<>> }

ModalityStrings ==
    UNION { Writings(Spelling[ModalityAbbreviation(m)]) : m \in Modalities }
    \cup UnknownStrings \cup { Spelling["confocal"] }

PlatformStrings ==
    UNION { Writings(Spelling[PlatformAbbreviation(p)]) : p \in Platforms }
    \cup UnknownStrings \cup { Spelling["fib"] }

\* ModalityConfigs(modality="...", source=..., compress_raw_data=...), the
\* modality as a str or as a member of the taxonomy.
ModalityKwargsFromString ==
    { [ModalityKw("FIB", c, Absent) EXCEPT !.modality = m] :
        m \in { PyChars(text) : text \in ModalityStrings }
                \cup { [t |-> "Modality", v |-> v] : v \in Modalities },
        c \in {PyNone, PyBool(TRUE), PyBool(FALSE)} }

\* BasicUploadJobConfigs(platform="...", modalities=[{"modality": "...",
\* "source": ...}], ...)
JobKwargsFromString ==
    { [ExampleJobKwargs EXCEPT
          !.platform = PyChars(platform),
          !.modalities =
              <<[ModalityKw("FIB", PyNone, Absent) EXCEPT
                    !.modality = PyChars(modality)]>>] :
        platform \in PlatformStrings,
        modality \in { Spelling["behavior-videos"], <<"a", "b", "c", "d", "e", "f">> } }

\* ModalityConfigs(..., extra_field_1="an extra field") and
\* BasicUploadJobConfigs(..., extra_field_1="an extra field")
ExtraField == [extra_field_1 |-> "an extra field"]

ModalityKwargsWithExtra ==
    { ModalityKw(m, c, Absent) @@ ExtraField :
        m \in Modalities, c \in {PyNone, PyBool(TRUE), PyBool(FALSE)} }

JobKwargsWithExtra ==
    { [ExampleJobKwargs EXCEPT
          !.platform = [t |-> "Platform", v |-> p],
          !.subject_id = subject_id,
          !.modalities = modalities] @@ ExtraField :
        p \in Platforms, subject_id \in {"123456", "654321"},
        modalities \in ModalityKwLists \ {<<>>} }

\* JSON documents written by hand: a job without optional keys, with and
\* without the keys of the computed fields.
HandWrittenModalityDocs ==
    UNION { { [ModalityConfigsDoc(ModalityConfigs(ModalityKw(m, PyNone, Absent)).obj)
                 EXCEPT !.output_folder_name = f] :
              f \in {Absent, "incorrect", ModalityAbbreviation(m)} } :
            m \in Modalities }

HandWrittenJobDoc(p, d, f, x) ==
      [ project_name |-> "Behavior Platform",
        platform |-> PlatformDoc(p),
        subject_id |-> "123456",
        acq_datetime |-> PyText(isoformat(d)),
        modalities |->
            << [ModalityConfigsDoc(
                    ModalityConfigs(ModalityKw("BEHAVIOR_VIDEOS", PyNone, Absent)).obj)
                  EXCEPT !.output_folder_name = f] >>,
        s3_bucket |-> [t |-> "str", parts |-> <<"private">>],
        process_capsule_id |-> None,
        input_data_mount |-> PyNone,
        metadata_dir |-> PyNone,
        metadata_dir_force |-> FALSE,
        force_cloud_sync |-> FALSE,
        user_email |-> None,
        email_notification_types |-> PyNone,
        metadata_configs |-> PyNone,
        trigger_capsule_configs |-> PyNone,
        s3_prefix |-> x ]

HandWrittenJobDocs ==
    UNION { { HandWrittenJobDoc(pd[1], pd[2], f, x) :
              f \in {Absent, "behavior-videos"},
              x \in {Absent, "incorrect",
                     PlatformAbbreviation(pd[1]) \o "_123456_"
                        \o datetime_to_name_string(pd[2])} } :
            pd \in Platforms \X Datetimes }

\* What a caller may do to a dumped document before loading it: nothing, or
\* change the value of the computed field.
Edited(cls, doc) ==
    IF cls = "ModalityConfigs"
    THEN {doc, [doc EXCEPT !.output_folder_name = "incorrect"]}
    ELSE {doc, [doc EXCEPT !.s3_prefix = "incorrect"]}

\* ------------------------------------------------------------ the session

Nothing == [ok |-> FALSE, exc |-> "not run", errors |-> <<>>]

Init ==
    /\ pc = "start"
    /\ trig = Nothing
    /\ model = Nothing
    /\ json = Nothing
    /\ loaded = Nothing

\* trig = TriggerConfigModel(**kw)
NewTriggerConfigModel ==
    /\ pc = "start"
    /\ \E kw \in TriggerKwargs :
          trig' = [kwargs |-> kw] @@ TriggerConfigModel(kw)
    /\ pc' = "trigger"
    /\ UNCHANGED <<model, json, loaded>>

\* trig = TriggerConfigModel(**kw), asset ids and mounts in any form.
NewTriggerConfigModelAnyForm ==
    /\ pc = "start"
    /\ \E kw \in TriggerKwargsAnyForm :
          trig' = [kwargs |-> kw] @@ TriggerConfigModel(kw)
    /\ pc' = "trigger"
    /\ UNCHANGED <<model, json, loaded>>

\* model = ModalityConfigs(**kw)
NewModalityConfigs ==
    /\ pc = "start"
    /\ \E kw \in ModalityKwargs :
          model' = [cls |-> "ModalityConfigs", kwargs |-> kw] @@ ModalityConfigs(kw)
    /\ pc' = "model"
    /\ UNCHANGED <<trig, json, loaded>>

\* model = BasicUploadJobConfigs(**kw), with trigger_capsule_configs=trig
\* when the caller built one.
NewBasicUploadJobConfigs ==
    /\ \/ pc = "start"
       \/ pc = "trigger" /\ trig.ok
    /\ \E kw \in JobKwargs(IF pc = "trigger"
                           THEN AsModel("TriggerConfigModel", trig.obj)
                           ELSE PyNone) :
          model' = [cls |-> "BasicUploadJobConfigs", kwargs |-> kw]
                      @@ BasicUploadJobConfigs(kw)
    /\ pc' = "model"
    /\ UNCHANGED <<trig, json, loaded>>

\* model = BasicUploadJobConfigs(**kw), with bucket, metadata and session
\* settings of the caller's.
NewBasicUploadJobConfigsWithSettings ==
    /\ pc = "start"
    /\ \E kw \in JobKwargsWithSettings :
          model' = [cls |-> "BasicUploadJobConfigs", kwargs |-> kw]
                      @@ BasicUploadJobConfigs(kw)
    /\ pc' = "model"
    /\ UNCHANGED <<trig, json, loaded>>

\* model = BasicUploadJobConfigs.model_validate(input), input a mapping of
\* the caller's whose trigger_capsule_configs is a TriggerConfigModel.  The
\* caller's objects before and after the call are kept with the result.
ModelValidateMapping ==
    /\ pc = "start"
    /\ \E settings \in { kw \in JobKwargsWithSettings :
                              kw.trigger_capsule_configs = PyNone },
          t \in TriggerObjects :
          LET kw == [settings EXCEPT !.trigger_capsule_configs = t]
          IN  model' = [ cls |-> "BasicUploadJobConfigs", kwargs |-> kw,
                         before |-> Store(kw),
                         after |-> model_validate(kw).h,
                         trigger |-> model_validate(kw).a ]
                          @@ BasicUploadJobConfigs(kw)
    /\ pc' = "model"
    /\ UNCHANGED <<trig, json, loaded>>

\* model = SubmitJobRequest(**kw)
NewSubmitJobRequest ==
    /\ pc = "start"
    /\ \E kw \in SubmitJobRequestKwargs :
          model' = [cls |-> "SubmitJobRequest", kwargs |-> kw]
                      @@ SubmitJobRequest(kw)
    /\ pc' = "model"
    /\ UNCHANGED <<trig, json, loaded>>

\* model = S3UploadSubmitJobRequest(**kw)
NewS3UploadSubmitJobRequest ==
    /\ pc = "start"
    /\ \E kw \in S3UploadSubmitJobRequestKwargs :
          model' = [cls |-> "S3UploadSubmitJobRequest", kwargs |-> kw]
                      @@ S3UploadSubmitJobRequest(kw)
    /\ pc' = "model"
    /\ UNCHANGED <<trig, json, loaded>>

\* model = BasicUploadJobConfigs(acq_datetime="...", **example)
NewBasicUploadJobConfigsFromDatetimeString ==
    /\ pc = "start"
    /\ \E text \in DatetimeStrings :
          LET kw == [ExampleJobKwargs EXCEPT !.acq_datetime = PyChars(text)]
          IN  model' = [cls |-> "BasicUploadJobConfigs", kwargs |-> kw]
                          @@ BasicUploadJobConfigs(kw)
    /\ pc' = "model"
    /\ UNCHANGED <<trig, json, loaded>>

\* model = ModalityConfigs(modality="...", ...)
NewModalityConfigsFromString ==
    /\ pc = "start"
    /\ \E kw \in ModalityKwargsFromString :
          model' = [cls |-> "ModalityConfigs", kwargs |-> kw] @@ ModalityConfigs(kw)
    /\ pc' = "model"
    /\ UNCHANGED <<trig, json, loaded>>

\* model = BasicUploadJobConfigs(platform="...", ...)
NewBasicUploadJobConfigsFromString ==
    /\ pc = "start"
    /\ \E kw \in JobKwargsFromString :
          model' = [cls |-> "BasicUploadJobConfigs", kwargs |-> kw]
                      @@ BasicUploadJobConfigs(kw)
    /\ pc' = "model"
    /\ UNCHANGED <<trig, json, loaded>>

\* model = ModalityConfigs(..., extra_field_1=...)
NewModalityConfigsWithExtra ==
    /\ pc = "start"
    /\ \E kw \in ModalityKwargsWithExtra :
          model' = [cls |-> "ModalityConfigs", kwargs |-> kw] @@ ModalityConfigs(kw)
    /\ pc' = "model"
    /\ UNCHANGED <<trig, json, loaded>>

\* model = BasicUploadJobConfigs(..., extra_field_1=...)
NewBasicUploadJobConfigsWithExtra ==
    /\ pc = "start"
    /\ \E kw \in JobKwargsWithExtra :
          model' = [cls |-> "BasicUploadJobConfigs", kwargs |-> kw]
                      @@ BasicUploadJobConfigs(kw)
    /\ pc' = "model"
    /\ UNCHANGED <<trig, json, loaded>>

\* json = model.model_dump_json()
model_dump_json ==
    /\ pc = "model"
    /\ model.ok
    /\ json' = Dump(model.cls, model.obj)
    /\ pc' = "dumped"
    /\ UNCHANGED <<trig, model, loaded>>

\* loaded = cls.model_validate_json(doc), of the dumped document (as it is,
\* or edited) or of a document written by hand.
model_validate_json ==
    /\ \/ /\ pc = "dumped"
          /\ json.ok
          /\ \E doc \in Edited(model.cls, json.doc) :
                loaded' = [cls |-> model.cls, doc |-> doc] @@ Load(model.cls, doc)
       \/ /\ pc = "start"
          /\ \E doc \in HandWrittenModalityDocs :
                loaded' = [cls |-> "ModalityConfigs", doc |-> doc]
                             @@ Load("ModalityConfigs", doc)
       \/ /\ pc = "start"
          /\ \E doc \in HandWrittenJobDocs :
                loaded' = [cls |-> "BasicUploadJobConfigs", doc |-> doc]
                             @@ Load("BasicUploadJobConfigs", doc)
    /\ pc' = "loaded"
    /\ UNCHANGED <<trig, model, json>>

Next ==
    \/ NewTriggerConfigModel
    \/ NewModalityConfigs
    \/ NewBasicUploadJobConfigs
    \/ model_dump_json
    \/ model_validate_json

Spec == Init /\ [][Next]_vars

\* A caller that builds one TriggerConfigModel.
TriggerSpec == Init /\ [][NewTriggerConfigModelAnyForm]_vars

\* A caller that builds one job with settings of their own, or one batch.
RequestNext ==
    \/ NewBasicUploadJobConfigsWithSettings
    \/ NewSubmitJobRequest
    \/ NewS3UploadSubmitJobRequest
    \/ ModelValidateMapping

RequestSpec == Init /\ [][RequestNext]_vars

\* A caller that builds one object from strings, or with a field of their
\* own.
ParseNext ==
    \/ NewBasicUploadJobConfigsFromDatetimeString
    \/ NewModalityConfigsFromString
    \/ NewBasicUploadJobConfigsFromString
    \/ NewModalityConfigsWithExtra
    \/ NewBasicUploadJobConfigsWithExtra

ParseSpec == Init /\ [][ParseNext]_vars

\* ------------------------------------------------------------ properties

\* A BasicUploadJobConfigs was constructed successfully.
JobBuilt == model.ok /\ model.cls = "BasicUploadJobConfigs"

\* The caller handed the job a trigger configuration of their own.
UserTrigger == model.kwargs.trigger_capsule_configs /= PyNone

\* The trigger configuration the constructed job holds.
JobTrigger == model.obj.trigger_capsule_configs.obj

\* The abbreviations and the %Y-%m-%d_%H-%M-%S texts, written out.
ExpectedAbbreviation ==
    [ BEHAVIOR |-> "behavior", CONFOCAL |-> "confocal", ECEPHYS |-> "ecephys",
      SMARTSPIM |-> "SmartSPIM", SINGLE_PLANE_OPHYS |-> "single-plane-ophys",
      MULTIPLANE_OPHYS |-> "multiplane-ophys" ]

ExpectedStamp(dt) ==
    CASE dt = datetime(2020, 10, 13, 13, 10, 10) -> "2020-10-13_13-10-10"
      [] dt = datetime(2020, 1, 2, 3, 4, 5) -> "2020-01-02_03-04-05"

ExpectedPrefix(job) ==
    ExpectedAbbreviation[job.platform] \o "_" \o job.subject_id \o "_"
        \o ExpectedStamp(job.acq_datetime)

\* C1: every successfully constructed BasicUploadJobConfigs has s3_prefix =
\* "{platform.abbreviation}_{subject_id}_{acq_datetime:%Y-%m-%d_%H-%M-%S}"
\* (BEHAVIOR, "123456", 2020-10-13 13:10:10 gives
\* "behavior_123456_2020-10-13_13-10-10"); the value is computed from the
\* fields on every read (the serialized form carries the same value) and the
\* object stores no s3_prefix of its own.
C1_s3_prefix ==
    JobBuilt =>
        /\ s3_prefix(model.obj) = ExpectedPrefix(model.obj)
        /\ ( /\ model.obj.platform = "BEHAVIOR"
             /\ model.obj.subject_id = "123456"
             /\ model.obj.acq_datetime = datetime(2020, 10, 13, 13, 10, 10) )
           => s3_prefix(model.obj) = "behavior_123456_2020-10-13_13-10-10"
        /\ "s3_prefix" \notin DOMAIN model.obj
        /\ (pc \in {"dumped", "loaded"} /\ json.ok)
           => json.doc.s3_prefix = ExpectedPrefix(model.obj)

\* A job on another platform, with digits to pad, was built and serialized.
C1_witness ==
    /\ JobBuilt
    /\ pc = "dumped"
    /\ json.ok
    /\ model.obj.platform = "SMARTSPIM"
    /\ model.obj.subject_id = "654321"
    /\ model.obj.acq_datetime = datetime(2020, 1, 2, 3, 4, 5)
    /\ json.doc.s3_prefix = "SmartSPIM_654321_2020-01-02_03-04-05"

\* C2: round trip: serializing a valid BasicUploadJobConfigs succeeds, and
\* loading the serialized form succeeds and yields an object equal to the
\* original.
C2_round_trip ==
    /\ (pc = "dumped" /\ JobBuilt) => json.ok
    /\ (pc = "loaded" /\ JobBuilt /\ json.ok /\ loaded.doc = json.doc)
       => (loaded.ok /\ loaded.obj = model.obj)

\* "Value error, <field> <supplied> doesn't match <computed>!"
MismatchMessage(field, supplied, computed) ==
    "Value error, " \o field \o " " \o supplied \o " doesn't match "
        \o computed \o "!"

\* The value of the derived field of a document, by the formula.
ComputedOfDoc(cls, doc) ==
    IF cls = "ModalityConfigs" THEN doc.modality.abbreviation
    ELSE doc.platform.abbreviation \o "_" \o doc.subject_id \o "_"
            \o ExpectedStamp(fromisoformat(doc.acq_datetime.text))

SuppliedOfDoc(cls, doc) ==
    IF cls = "ModalityConfigs" THEN doc.output_folder_name ELSE doc.s3_prefix

DerivedFieldOf(cls) ==
    IF cls = "ModalityConfigs" THEN "output_folder_name" ELSE "s3_prefix"

\* A job document whose modalities carry no disagreeing output_folder_name.
NestedAgree(cls, doc) ==
    cls = "BasicUploadJobConfigs" =>
        \A i \in DOMAIN doc.modalities :
            doc.modalities[i].output_folder_name
                \in {Absent, doc.modalities[i].modality.abbreviation}

\* C3: loading a serialized form whose derived field (output_folder_name of a
\* ModalityConfigs, s3_prefix of a BasicUploadJobConfigs) differs from the
\* formula fails with exactly one validation error naming the supplied and
\* the computed value; a form whose derived value agrees with the formula
\* loads.
C3_derived_fields_on_load ==
    (pc = "loaded" /\ SuppliedOfDoc(loaded.cls, loaded.doc) /= Absent
                   /\ NestedAgree(loaded.cls, loaded.doc)) =>
        IF SuppliedOfDoc(loaded.cls, loaded.doc)
               = ComputedOfDoc(loaded.cls, loaded.doc)
        THEN loaded.ok
        ELSE /\ ~loaded.ok
             /\ loaded.exc = "ValidationError"
             /\ Len(loaded.errors) = 1
             /\ loaded.errors[1] =
                    MismatchMessage(DerivedFieldOf(loaded.cls),
                                    SuppliedOfDoc(loaded.cls, loaded.doc),
                                    ComputedOfDoc(loaded.cls, loaded.doc))

\* The rules of validate_trigger_config, as properties of a trigger
\* configuration.
RegistrationExclusive(t) ==
    ~(t.bucket /= None /\ t.prefix /= None /\ t.input_data_asset_id /= PyNone)

RegistrationDefaulted(t) ==
    (t.bucket /= None /\ t.prefix /= None)
        => (t.asset_name /= None /\ t.mount /= None)

InputAssetsPaired(t) ==
    t.input_data_asset_id /= PyNone =>
        /\ IsList(t.input_data_asset_id)
        /\ IsList(t.input_data_mount)
        /\ Len(t.input_data_asset_id.items) = Len(t.input_data_mount.items)
        /\ t.input_data_asset_name /= None

GenericPipelineHasCapsule(t) ==
    t.job_type = RUN_GENERIC_PIPELINE => t.process_capsule_id /= None

\* C4: an object that exists is valid: the trigger_capsule_configs of every
\* successfully constructed BasicUploadJobConfigs satisfies the rules of
\* TriggerConfigModel; in particular, after the job has overwritten bucket
\* and prefix, it never has bucket, prefix and input_data_asset_id all set.
C4_trigger_of_job_is_valid ==
    JobBuilt =>
        /\ JobTrigger.job_type \in ValidJobType
        /\ RegistrationExclusive(JobTrigger)
        /\ RegistrationDefaulted(JobTrigger)
        /\ InputAssetsPaired(JobTrigger)
        /\ GenericPipelineHasCapsule(JobTrigger)

\* C5: trigger override precedence: a job constructed with a user-supplied
\* trigger configuration holds a trigger configuration whose bucket is the
\* job's s3_bucket and whose prefix and asset_name are the job's s3_prefix,
\* whatever the user put there.
C5_override_precedence ==
    (JobBuilt /\ UserTrigger) =>
        /\ JobTrigger.bucket = model.obj.s3_bucket
        /\ JobTrigger.bucket \in BucketType
        /\ JobTrigger.prefix = ExpectedPrefix(model.obj)
        /\ JobTrigger.asset_name = ExpectedPrefix(model.obj)

\* The user set bucket, prefix and asset_name, and the job replaced all three.
C5_witness ==
    /\ JobBuilt
    /\ UserTrigger
    /\ trig.kwargs.bucket = "my-bucket"
    /\ trig.kwargs.prefix = "ecephys_0000"
    /\ trig.kwargs.asset_name = "my_asset"
    /\ model.kwargs.trigger_capsule_configs.obj.asset_name = "my_asset"
    /\ JobTrigger.bucket = "private"
    /\ JobTrigger.prefix = "behavior_123456_2020-10-13_13-10-10"
    /\ JobTrigger.asset_name = "behavior_123456_2020-10-13_13-10-10"

\* C6: default trigger derivation: a job constructed without
\* trigger_capsule_configs holds a trigger configuration whose job_type is
\* the one inferred from (platform, process_capsule_id), whose
\* process_capsule_id and input_data_mount are the job-level values, whose
\* bucket is the job's s3_bucket, whose prefix, mount and asset_name are the
\* job's s3_prefix and whose modalities are the job's, in order (BEHAVIOR with
\* defaults: register_data, private).
C6_default_trigger ==
    (JobBuilt /\ ~UserTrigger) =>
        /\ JobTrigger.job_type =
               _get_job_type(model.obj.platform, model.obj.process_capsule_id)
        /\ JobTrigger.process_capsule_id = model.kwargs.process_capsule_id
        /\ JobTrigger.input_data_mount = model.kwargs.input_data_mount
        /\ JobTrigger.bucket = model.obj.s3_bucket
        /\ JobTrigger.prefix = ExpectedPrefix(model.obj)
        /\ JobTrigger.mount = ExpectedPrefix(model.obj)
        /\ JobTrigger.asset_name = ExpectedPrefix(model.obj)
        /\ JobTrigger.modalities.t = "list"
        /\ Len(JobTrigger.modalities.items) = Len(model.kwargs.modalities)
        /\ \A i \in DOMAIN model.kwargs.modalities :
               JobTrigger.modalities.items[i]
                   = model.kwargs.modalities[i].modality.v
        /\ ( /\ model.obj.platform = "BEHAVIOR"
             /\ model.kwargs.s3_bucket = Unset
             /\ model.kwargs.process_capsule_id = None )
           => (JobTrigger.job_type = "register_data"
               /\ JobTrigger.bucket = "private")

\* A job with two modalities and both job-level legacy values, no trigger
\* configuration of the user's.
C6_witness ==
    /\ JobBuilt
    /\ ~UserTrigger
    /\ model.kwargs.process_capsule_id = "def-456"
    /\ model.kwargs.input_data_mount = PyStr(<<"job_mount">>)
    /\ JobTrigger.process_capsule_id = "def-456"
    /\ JobTrigger.input_data_mount = PyStr(<<"job_mount">>)
    /\ JobTrigger.modalities = PyList(<<"BEHAVIOR_VIDEOS", "ECEPHYS">>)

\* C7, as stated: every successfully constructed job whose job-level
\* process_capsule_id is set holds a trigger configuration of job_type
\* run_generic_pipeline, whatever its platform.
C7_capsule_id_means_generic_pipeline ==
    (JobBuilt /\ model.obj.process_capsule_id /= None)
        => JobTrigger.job_type = RUN_GENERIC_PIPELINE

\* C7, amended: a successfully constructed job whose job-level
\* process_capsule_id is set holds a trigger configuration of job_type
\* run_generic_pipeline, whatever its platform, when it was constructed
\* without a trigger configuration of the user's; constructed with one, it
\* keeps that configuration's job_type.
C7_capsule_id_without_user_trigger ==
    (JobBuilt /\ model.obj.process_capsule_id /= None) =>
        IF UserTrigger
        THEN JobTrigger.job_type
                 = model.kwargs.trigger_capsule_configs.obj.job_type
        ELSE JobTrigger.job_type = RUN_GENERIC_PIPELINE

\* An ECEPHYS job with a job-level process_capsule_id and no trigger
\* configuration of the user's.
C7_witness ==
    /\ JobBuilt
    /\ ~UserTrigger
    /\ model.obj.platform = "ECEPHYS"
    /\ model.obj.process_capsule_id = "abc-123"
    /\ JobTrigger.job_type = RUN_GENERIC_PIPELINE

\* The table of job types, written out.
ExpectedJobType(platform, process_capsule_id) ==
    IF process_capsule_id /= None THEN "run_generic_pipeline"
    ELSE CASE platform = "ECEPHYS" -> "ecephys"
           [] platform = "SMARTSPIM" -> "smartspim"
           [] platform = "SINGLE_PLANE_OPHYS" -> "singleplane_ophys"
           [] platform = "MULTIPLANE_OPHYS" -> "multiplane_ophys"
           [] OTHER -> "register_data"

\* C8: job-type inference is the fixed table: without a process_capsule_id
\* ECEPHYS gives ecephys, SMARTSPIM smartspim, SINGLE_PLANE_OPHYS
\* singleplane_ophys, MULTIPLANE_OPHYS multiplane_ophys and every other
\* platform register_data; with one, every platform gives
\* run_generic_pipeline; ecephys_opto and test are never inferred.
C8_job_type_table ==
    (JobBuilt /\ ~UserTrigger) =>
        /\ JobTrigger.job_type =
               ExpectedJobType(model.kwargs.platform.v,
                               model.kwargs.process_capsule_id)
        /\ JobTrigger.job_type \notin {"ecephys_opto", "test"}

\* A SINGLE_PLANE_OPHYS job without process_capsule_id got singleplane_ophys.
C8_witness ==
    /\ JobBuilt
    /\ ~UserTrigger
    /\ model.kwargs.platform.v = "SINGLE_PLANE_OPHYS"
    /\ model.kwargs.process_capsule_id = None
    /\ JobTrigger.job_type = "singleplane_ophys"

\* TriggerConfigModel(results_suffix="processed", ...) with the other fields
\* of t, capsule_version not passed.
ExplicitTrigger(t) ==
    TriggerConfigModel(
        [ t EXCEPT
            !.capsule_version = Unset,
            !.results_suffix = PyText("processed"),
            !.modalities =
                IF @ = PyNone THEN @
                ELSE PyList([i \in DOMAIN @.items |->
                                [t |-> "Modality", v |-> @.items[i]]]) ])

\* C9: a TriggerConfigModel constructed without results_suffix has
\* results_suffix "processed", one constructed without capsule_version has
\* capsule_version None; so the default trigger configuration of a job
\* equals the TriggerConfigModel built explicitly with
\* results_suffix="processed" and the same other fields.
C9_trigger_defaults ==
    /\ (trig /= Nothing /\ trig.ok /\ trig.kwargs.results_suffix = Unset)
       => trig.obj.results_suffix = PyText("processed")
    /\ (trig /= Nothing /\ trig.ok /\ trig.kwargs.capsule_version = Unset)
       => trig.obj.capsule_version = PyNone
    /\ (JobBuilt /\ ~UserTrigger)
       => (ExplicitTrigger(JobTrigger).ok
           /\ JobTrigger = ExplicitTrigger(JobTrigger).obj)

\* The caller passed bucket and prefix to TriggerConfigModel.
RegistrationMode == trig.kwargs.bucket /= None /\ trig.kwargs.prefix /= None

DefaultedTo(given, prefix) == IF given = None THEN prefix ELSE given

GenericPipelineWithoutCapsule ==
    /\ trig.kwargs.job_type = RUN_GENERIC_PIPELINE
    /\ trig.kwargs.process_capsule_id = None
    /\ trig.kwargs.capsule_id = None

ConflictingCapsuleIds ==
    /\ UserTrigger
    /\ model.kwargs.process_capsule_id /= None
    /\ model.kwargs.trigger_capsule_configs.obj.process_capsule_id
           /= model.kwargs.process_capsule_id

\* C26: conflicting capsule ids are tolerated.  A job given a trigger
\* configuration and a process_capsule_id that differ is constructed whenever
\* it is constructed without the process_capsule_id; exactly one warning is
\* logged, and the job's trigger configuration keeps the process_capsule_id
\* and the job_type of the caller's.  No warning is logged when the two agree
\* or when only one of them is given.
C26_conflicting_capsule_ids ==
    pc = "model" /\ model.cls = "BasicUploadJobConfigs" =>
        /\ ConflictingCapsuleIds
              /\ BasicUploadJobConfigs(
                    [model.kwargs EXCEPT !.process_capsule_id = None]).ok
              => /\ model.ok
                 /\ model.warnings = 1
                 /\ JobTrigger.process_capsule_id =
                        model.kwargs.trigger_capsule_configs.obj.process_capsule_id
                 /\ JobTrigger.job_type =
                        model.kwargs.trigger_capsule_configs.obj.job_type
        /\ ConflictingCapsuleIds => (model.ok <=> model.warnings = 1)
        /\ ~ConflictingCapsuleIds => model.warnings = 0

C26_witness ==
    /\ JobBuilt
    /\ ConflictingCapsuleIds
    /\ model.kwargs.process_capsule_id = "def-456"
    /\ model.kwargs.trigger_capsule_configs.obj.process_capsule_id = "abc-123"
    /\ model.kwargs.trigger_capsule_configs.obj.job_type = "ecephys"
    /\ JobTrigger.process_capsule_id = "abc-123"
    /\ JobTrigger.job_type = "ecephys"
    /\ model.warnings = 1

\* C30: no drift of the trigger mount: the mount of the job's trigger
\* configuration is the mount the caller passed to their TriggerConfigModel
\* when they passed one, and the job's s3_prefix otherwise, also when the
\* caller's trigger configuration has a bucket and a prefix of its own.
C30_mount_does_not_drift ==
    JobBuilt =>
        JobTrigger.mount =
            IF UserTrigger /\ trig.kwargs.mount /= None
            THEN trig.kwargs.mount
            ELSE ExpectedPrefix(model.obj)

\* ------------------------------------------------------------ properties of TriggerSpec

\* input_data_mount as validate_trigger_config sees it after the aliases.
ResolvedMount ==
    IF trig.kwargs.input_data_mount /= PyNone
    THEN trig.kwargs.input_data_mount
    ELSE trig.kwargs.input_data_point

\* No rule other than the ones on input data assets rejects the keywords.
OtherRulesPass == ~RegistrationMode /\ ~GenericPipelineWithoutCapsule

\* C11: multi-asset validation: a TriggerConfigModel given input_data_asset_id
\* and input_data_mount (directly or through input_data_point) as
\* semicolon-delimited strings with the same number of entries, and
\* input_data_asset_name, is constructed when no other rule rejects it, and
\* holds both as the ordered lists of the entries; construction fails if the
\* mount is missing, if the numbers of entries differ, or if
\* input_data_asset_name is missing.
C11_multi_asset ==
    ( /\ trig /= Nothing
      /\ IsStr(trig.kwargs.input_data_asset_id)
      /\ Len(trig.kwargs.input_data_asset_id.segs) > 1
      /\ ~IsList(ResolvedMount)
      /\ OtherRulesPass ) =>
        IF \/ ResolvedMount = PyNone
           \/ Len(ResolvedMount.segs) /= Len(trig.kwargs.input_data_asset_id.segs)
           \/ trig.kwargs.input_data_asset_name = None
        THEN ~trig.ok /\ trig.exc = "ValidationError" /\ Len(trig.errors) = 1
        ELSE /\ trig.ok
             /\ trig.obj.input_data_asset_id.t = "list"
             /\ trig.obj.input_data_asset_id.items
                    = trig.kwargs.input_data_asset_id.segs
             /\ trig.obj.input_data_mount.t = "list"
             /\ trig.obj.input_data_mount.items = ResolvedMount.segs

\* "0000;0001" and "mount1;mount2" became ["0000", "0001"] and
\* ["mount1", "mount2"].
C11_witness ==
    /\ trig /= Nothing
    /\ trig.ok
    /\ trig.kwargs.input_data_asset_id = PyStr(<<"0000", "0001">>)
    /\ trig.kwargs.input_data_mount = PyStr(<<"mount1", "mount2">>)
    /\ trig.obj.input_data_asset_id = PyList(<<"0000", "0001">>)
    /\ trig.obj.input_data_mount = PyList(<<"mount1", "mount2">>)

\* C12: a TriggerConfigModel given input_data_asset_id and input_data_mount
\* as lists of the same length, with input_data_asset_name and without a
\* bucket/prefix pair, is accepted and keeps both lists unchanged.
C12_lists_accepted ==
    ( /\ trig /= Nothing
      /\ IsList(trig.kwargs.input_data_asset_id)
      /\ IsList(trig.kwargs.input_data_mount)
      /\ Len(trig.kwargs.input_data_asset_id.items)
             = Len(trig.kwargs.input_data_mount.items)
      /\ trig.kwargs.input_data_asset_name /= None
      /\ OtherRulesPass ) =>
        /\ trig.ok
        /\ trig.obj.input_data_asset_id = trig.kwargs.input_data_asset_id
        /\ trig.obj.input_data_mount = trig.kwargs.input_data_mount

\* C13: a TriggerConfigModel that attaches a single input data asset (one id,
\* no semicolon) is accepted without input_data_mount and without
\* input_data_asset_name.
C13_single_asset ==
    ( /\ trig /= Nothing
      /\ IsStr(trig.kwargs.input_data_asset_id)
      /\ Len(trig.kwargs.input_data_asset_id.segs) = 1
      /\ ResolvedMount = PyNone
      /\ trig.kwargs.input_data_asset_name = None
      /\ OtherRulesPass ) =>
        trig.ok

\* C14: the legacy aliases populate their modern counterpart only when it is
\* unset: after construction process_capsule_id is the one given, or
\* capsule_id when none was given, and input_data_mount is the one given, or
\* input_data_point when none was given (split into its entries when input
\* data assets are attached); the aliases are resolved before the split and
\* before the run_generic_pipeline check, which see the resolved values.
C14_legacy_aliases ==
    trig /= Nothing =>
        /\ trig.ok =>
              /\ trig.obj.process_capsule_id =
                     (IF trig.kwargs.process_capsule_id /= None
                      THEN trig.kwargs.process_capsule_id
                      ELSE trig.kwargs.capsule_id)
              /\ trig.obj.input_data_mount =
                     (IF trig.obj.input_data_asset_id = PyNone
                      THEN ResolvedMount
                      ELSE PyList(ResolvedMount.segs))
              /\ trig.obj.capsule_id = trig.kwargs.capsule_id
              /\ trig.obj.input_data_point = trig.kwargs.input_data_point
        /\ ( /\ trig.kwargs.job_type = RUN_GENERIC_PIPELINE
             /\ trig.kwargs.process_capsule_id = None
             /\ trig.kwargs.capsule_id /= None
             /\ trig.kwargs.input_data_asset_id = PyNone )
           => trig.ok
        /\ ( /\ IsStr(trig.kwargs.input_data_asset_id)
             /\ trig.kwargs.input_data_mount = PyNone
             /\ trig.kwargs.input_data_point /= PyNone
             /\ Len(trig.kwargs.input_data_point.segs)
                    = Len(trig.kwargs.input_data_asset_id.segs)
             /\ trig.kwargs.input_data_asset_name /= None
             /\ OtherRulesPass )
           => (trig.ok /\ trig.obj.input_data_mount.t = "list")

\* input_data_point "point1;point2" served as the mounts of two assets.
C14_witness ==
    /\ trig /= Nothing
    /\ trig.ok
    /\ trig.kwargs.input_data_mount = PyNone
    /\ trig.kwargs.input_data_point = PyStr(<<"point1", "point2">>)
    /\ trig.kwargs.input_data_asset_id = PyStr(<<"0000", "0001">>)
    /\ trig.obj.input_data_mount = PyList(<<"point1", "point2">>)

JobMetadata == model.obj.metadata_configs

UserMetadata == user_defined_metadata_configs(model.kwargs)

UserSession == user_defined_session_settings(model.kwargs)

\* The keys of metadata_configs that the job computes.
ComputedMetadataKeys ==
    { "directory_to_write_to", "subject_settings", "procedures_settings",
      "raw_data_description_settings", "metadata_dir_force", "metadata_dir",
      "session_settings" }

\* C16: metadata merge, defaults always win: after construction, whatever
\* metadata_configs the user gave, directory_to_write_to is "stage",
\* subject_settings and procedures_settings carry the job's subject_id,
\* raw_data_description_settings has the job's s3_prefix, project_name and
\* modalities in order, metadata_dir_force is the job's flag, metadata_dir is
\* the job's metadata_dir as a POSIX path string, or unset when the job has
\* none; the user's other metadata fields are kept.
C16_metadata_defaults_win ==
    JobBuilt =>
        /\ JobMetadata.directory_to_write_to = "stage"
        /\ JobMetadata.subject_settings.subject_id = model.kwargs.subject_id
        /\ JobMetadata.procedures_settings.subject_id = model.kwargs.subject_id
        /\ JobMetadata.raw_data_description_settings.name
               = ExpectedPrefix(model.obj)
        /\ JobMetadata.raw_data_description_settings.project_name
               = model.kwargs.project_name
        /\ JobMetadata.raw_data_description_settings.modality
               = [i \in DOMAIN model.kwargs.modalities |->
                     model.kwargs.modalities[i].modality.v]
        /\ JobMetadata.metadata_dir_force = model.kwargs.metadata_dir_force
        /\ JobMetadata.metadata_dir =
               (IF model.kwargs.metadata_dir = PyNone THEN PyNone
                ELSE PyText("metadata/dir"))
        /\ \A k \in DOMAIN UserMetadata \ ComputedMetadataKeys :
               JobMetadata[k] = UserMetadata[k]

\* The user gave a raw_data_description_settings and a processing_settings:
\* the first was replaced, the second kept, and the job's metadata_dir was
\* rendered.
C16_witness ==
    /\ JobBuilt
    /\ model.kwargs.metadata_configs /= PyNone
    /\ "processing_settings" \in DOMAIN UserMetadata
    /\ UserMetadata.raw_data_description_settings.name = "user_name"
    /\ model.kwargs.metadata_dir = PathText(<<".", "metadata", "", "dir", "">>)
    /\ JobMetadata.raw_data_description_settings.name
           = "behavior_123456_2020-10-13_13-10-10"
    /\ JobMetadata.processing_settings = [pipeline_process |-> "user"]
    /\ JobMetadata.metadata_dir = PyText("metadata/dir")

\* A job is being constructed with session_settings of the user's, and
\* nothing else of the input is invalid.
SessionCase ==
    /\ pc = "model"
    /\ model.cls = "BasicUploadJobConfigs"
    /\ model.kwargs.modalities /= <<>>
    /\ model.kwargs.metadata_configs /= PyNone
    /\ "not_a_field" \notin DOMAIN UserMetadata

\* job_settings has exactly the two keys and a recognized job_settings_name.
TwoKeysAndRecognizedName ==
    /\ UserSession /= PyNone
    /\ "job_settings" \in DOMAIN UserSession
    /\ DOMAIN UserSession.job_settings
           = {"user_settings_config_file", "job_settings_name"}
    /\ UserSession.job_settings.job_settings_name \in
           {PyText("Bergamo"), PyText("Bruker")}

\* session_settings that full validation accepts: none, or job_settings with
\* a recognized name and every field its variant requires.
PassesFullValidation ==
    \/ UserSession = PyNone
    \/ /\ "job_settings" \in DOMAIN UserSession
       /\ { "job_settings_name", "input_source", "experimenter_full_name",
            "subject_id", "imaging_laser_wavelength", "fov_imaging_depth",
            "fov_targeted_structure", "notes" }
              \subseteq DOMAIN UserSession.job_settings
       /\ UserSession.job_settings.job_settings_name \in
              {PyText("Bergamo"), PyText("Bruker")}

\* The two values went into session_settings as given, unvalidated.
AcceptedRelaxed ==
    /\ model.ok
    /\ JobMetadata.session_settings /= PyNone
    /\ ~JobMetadata.session_settings.validated
    /\ JobMetadata.session_settings.job_settings = UserSession.job_settings

\* The session settings went through full validation.
FullyValidated ==
    /\ model.ok <=> PassesFullValidation
    /\ model.ok =>
          \/ UserSession = PyNone /\ JobMetadata.session_settings = PyNone
          \/ UserSession /= PyNone /\ JobMetadata.session_settings.validated

\* C17, as stated: if the job_settings of the user's session_settings has
\* exactly the keys user_settings_config_file and job_settings_name and the
\* name is a recognized one, construction succeeds and session_settings holds
\* the two values as given, without full validation; in every other case the
\* session settings go through full validation, and an invalid one makes
\* construction fail.
C17_relaxed_session ==
    SessionCase =>
        IF TwoKeysAndRecognizedName THEN AcceptedRelaxed ELSE FullyValidated

\* C17, amended: the relaxation applies if, in addition,
\* user_settings_config_file is a string or a path; in every other case,
\* exactly two keys with a recognized name but another kind of
\* user_settings_config_file included, the session settings go through full
\* validation, and an invalid one makes construction fail.
C17_relaxed_session_typed ==
    SessionCase =>
        IF /\ TwoKeysAndRecognizedName
           /\ UserSession.job_settings.user_settings_config_file.t
                  \in {"str", "PurePosixPath"}
        THEN AcceptedRelaxed
        ELSE FullyValidated

\* The two values "session_settings.json" and "Bergamo" were accepted as
\* given.
C17_witness ==
    /\ SessionCase
    /\ TwoKeysAndRecognizedName
    /\ AcceptedRelaxed
    /\ JobMetadata.session_settings.job_settings =
           [ user_settings_config_file |-> PyText("session_settings.json"),
             job_settings_name |-> PyText("Bergamo") ]

\* A SubmitJobRequest was constructed successfully.
RequestBuilt == model.ok /\ model.cls = "SubmitJobRequest"

\* The batch's notification types: the ones given, {fail} when none were.
BatchNotificationTypes ==
    IF model.kwargs.email_notification_types = Unset
    THEN EmailSet({"fail"})
    ELSE model.kwargs.email_notification_types

\* C18: batch email propagation: after SubmitJobRequest construction every
\* job of upload_jobs has email_notification_types set, its own if it had
\* one and the batch's otherwise (default {fail}), and the user_email it had,
\* or the batch's when it had none (None when the batch has none); nothing
\* else of a job changes, and the batch's own fields are as given.
C18_email_propagation ==
    RequestBuilt =>
        /\ model.obj.user_email = model.kwargs.user_email
        /\ model.obj.email_notification_types = BatchNotificationTypes
        /\ DOMAIN model.obj.upload_jobs = DOMAIN model.kwargs.upload_jobs
        /\ \A i \in DOMAIN model.obj.upload_jobs :
              LET given == model.kwargs.upload_jobs[i].job
                  job == model.obj.upload_jobs[i].job
              IN  /\ model.obj.upload_jobs[i].count
                         = model.kwargs.upload_jobs[i].count
                  /\ job.email_notification_types /= PyNone
                  /\ job.email_notification_types =
                         (IF given.email_notification_types /= PyNone
                          THEN given.email_notification_types
                          ELSE BatchNotificationTypes)
                  /\ job.user_email =
                         (IF given.user_email /= None
                          THEN given.user_email
                          ELSE model.kwargs.user_email)
                  /\ [ job EXCEPT
                         !.user_email = given.user_email,
                         !.email_notification_types =
                             given.email_notification_types ] = given

\* A batch with an email and types of its own, over a job with settings of
\* its own and a job without.
C18_witness ==
    /\ RequestBuilt
    /\ Len(model.kwargs.upload_jobs) = 2
    /\ model.kwargs.user_email = "batch@example.com"
    /\ model.kwargs.email_notification_types = EmailSet({"all"})
    /\ model.kwargs.upload_jobs[1].job.user_email = "job@example.com"
    /\ model.kwargs.upload_jobs[1].job.email_notification_types
           = EmailSet({"begin", "end"})
    /\ model.kwargs.upload_jobs[2].job.user_email = None
    /\ model.kwargs.upload_jobs[2].job.email_notification_types = PyNone
    /\ model.obj.upload_jobs[1].job.user_email = "job@example.com"
    /\ model.obj.upload_jobs[1].job.email_notification_types
           = EmailSet({"begin", "end"})
    /\ model.obj.upload_jobs[2].job.user_email = "batch@example.com"
    /\ model.obj.upload_jobs[2].job.email_notification_types = EmailSet({"all"})

\* The number of jobs of the list the caller gave.
RECURSIVE CountJobs(_)
CountJobs(runs) ==
    IF runs = <<>> THEN 0 ELSE runs[1].count + CountJobs(Tail(runs))

\* C19: cardinality: SubmitJobRequest construction succeeds for a list of n
\* valid upload jobs exactly when 1 <= n <= 1000, and fails with exactly one
\* validation error otherwise; BasicUploadJobConfigs construction fails when
\* its modalities list is empty.
C19_cardinality ==
    /\ (pc = "model" /\ model.cls = "SubmitJobRequest") =>
          /\ model.ok <=> ( /\ 1 <= CountJobs(model.kwargs.upload_jobs)
                            /\ CountJobs(model.kwargs.upload_jobs) <= 1000 )
          /\ ~model.ok =>
                (model.exc = "ValidationError" /\ Len(model.errors) = 1)
    /\ ( /\ pc = "model"
         /\ model.cls = "BasicUploadJobConfigs"
         /\ model.kwargs.modalities = <<>> )
       => (~model.ok /\ model.exc = "ValidationError")

\* The bucket designators and what each maps to, written out.
ExpectedBucket(bucket) ==
    CASE bucket = [t |-> "str", parts |-> <<"open">>] -> "open"
      [] bucket = [t |-> "str", parts |-> <<"aind-", "scratch", "-data-", "open">>]
            -> "open"
      [] bucket = [t |-> "str", parts |-> <<"aind-", "scratch", "-data">>]
            -> "scratch"
      [] bucket = [t |-> "BucketType", v |-> "open"] -> "open"
      [] bucket = [t |-> "BucketType", v |-> "scratch"] -> "scratch"
      [] OTHER -> "private"

\* C20: bucket mapping is total and ordered: a string containing "open" maps
\* to open, even if it contains "scratch" as well; otherwise a string
\* containing "scratch" maps to scratch; otherwise a BucketType member is
\* kept; every other input (any other string, None) maps to private.  The
\* result is one of private, open, scratch, and the bucket designator never
\* makes construction fail.
C20_bucket_mapping ==
    (pc = "model" /\ model.cls = "BasicUploadJobConfigs") =>
        /\ model.ok =>
              /\ model.obj.s3_bucket = ExpectedBucket(model.kwargs.s3_bucket)
              /\ model.obj.s3_bucket \in {"private", "open", "scratch"}
        /\ model.ok <=>
              BasicUploadJobConfigs(
                  [model.kwargs EXCEPT !.s3_bucket = Unset]).ok
        /\ [model.kwargs EXCEPT !.s3_bucket = Unset] = ExampleJobKwargs
           => model.ok

\* A designator containing both "scratch" and "open" was mapped to open.
C20_witness ==
    /\ JobBuilt
    /\ model.kwargs.s3_bucket
           = [t |-> "str", parts |-> <<"aind-", "scratch", "-data-", "open">>]
    /\ model.obj.s3_bucket = "open"

\* C27: S3UploadSubmitJobRequest accepts at most 20 upload jobs at a time:
\* a list of 1 to 20 S3UploadJobConfigs is accepted, an empty list and a list
\* of more than 20 are rejected.
C27_s3_upload_jobs_limit ==
    pc = "model" /\ model.cls = "S3UploadSubmitJobRequest" =>
        (model.ok <=>
            len(model.kwargs.upload_jobs) \in 1..S3UploadJobsDocumentedMax)

\* C28: constructing a BasicUploadJobConfigs leaves the caller's inputs as
\* they were: the TriggerConfigModel object (its bucket, prefix, asset_name,
\* mount and modalities) and the raw mapping, its metadata_configs and the
\* session_settings in it.  The job holds a trigger configuration of its
\* own, a modified copy.
C28_inputs_unchanged ==
    pc = "model" /\ "before" \in DOMAIN model =>
        /\ \A a \in DOMAIN model.before :
              a \in DOMAIN model.after /\ model.after[a] = model.before[a]
        /\ model.ok =>
              /\ model.trigger \notin DOMAIN model.before
              /\ model.after[model.trigger] = JobTrigger
              /\ model.after[model.trigger]
                     /= model.before["trigger_capsule_configs"]

C28_witness ==
    /\ pc = "model"
    /\ "before" \in DOMAIN model
    /\ model.ok
    /\ {"input", "metadata_configs", "session_settings",
        "trigger_capsule_configs"} \subseteq DOMAIN model.before
    /\ model.before["trigger_capsule_configs"].bucket = "my-bucket"
    /\ model.after["trigger_capsule_configs"].bucket = "my-bucket"
    /\ model.after[model.trigger].bucket = "private"
    /\ "session_settings" \in DOMAIN model.after["metadata_configs"].fields
    /\ "metadata_configs" \in DOMAIN model.after["input"]

\* A job without the email fields a batch may fill in.
WithoutEmails(job) ==
    [job EXCEPT !.user_email = None, !.email_notification_types = PyNone]

\* C29: every constructed BasicUploadJobConfigs can be placed in a
\* SubmitJobRequest: a batch of 1 to 1000 constructed jobs is constructed,
\* and each job of the batch equals the job passed in except for its email
\* fields; also when the job's trigger configuration carries
\* input_data_asset_id and input_data_mount.
C29_jobs_fit_in_a_batch ==
    /\ pc = "model"
    /\ model.cls = "SubmitJobRequest"
    /\ CountJobs(model.kwargs.upload_jobs) \in 1..1000
    => /\ model.ok
       /\ \A i \in DOMAIN model.kwargs.upload_jobs :
             WithoutEmails(model.obj.upload_jobs[i].job)
                 = WithoutEmails(model.kwargs.upload_jobs[i].job)

\* ------------------------------------------------------------ properties of ParseSpec

\* A job was constructed, or failed to be, from a string for acq_datetime.
DatetimeStringCase ==
    /\ pc = "model"
    /\ model.cls = "BasicUploadJobConfigs"
    /\ model.kwargs.acq_datetime.t = "str"

\* The half of the day of an hour.
HalfOfDay(f) ==
    IF f[4] < 12 THEN { <<" ", "A", "M">>, <<" ", "a", "m">> }
    ELSE { <<" ", "P", "M">>, <<" ", "p", "M">> }

\* The texts that denote the timestamp f in one of the two formats.
TextsOf(f) ==
    { IsoText(f, "-", sep, <<>>) : sep \in {" ", "T"} }
    \cup { UsText(ClockFace(f), padded, suffix) :
             padded \in BOOLEAN, suffix \in HalfOfDay(f) }

\* The texts that have the shape of one of the two formats, whatever their
\* digits.
ShapedTexts ==
    { IsoText(f, "-", sep, <<>>) : f \in WrittenFields, sep \in {" ", "T"} }
    \cup { UsText(f, padded, suffix) :
             f \in WrittenFields \cup { ClockFace(g) : g \in TimestampFields },
             padded \in BOOLEAN, suffix \in AmPm }

FormatError ==
    "acq_datetime: Value error, Incorrect datetime format, should be YYYY-MM-DD HH:mm:ss or MM/DD/YYYY I:MM:SS P"

\* C21: acquisition-datetime parsing: a string in the format
\* YYYY-MM-DD HH:mm:ss, YYYY-MM-DDTHH:mm:ss or M/D/YYYY H:mm:ss AM|PM is
\* accepted and parses to the timestamp it denotes, and a string that has the
\* shape of neither format is rejected with the format error that names both
\* patterns.
C21_datetime_parsing ==
    DatetimeStringCase =>
        /\ \A f \in TimestampFields :
              model.kwargs.acq_datetime.chars \in TextsOf(f) =>
                  /\ model.ok
                  /\ model.obj.acq_datetime
                         = datetime(f[1], f[2], f[3], f[4], f[5], f[6])
        /\ model.kwargs.acq_datetime.chars \notin ShapedTexts =>
              /\ ~model.ok
              /\ model.exc = "ValidationError"
              /\ model.errors = <<FormatError>>

ModalityStringCase ==
    /\ pc = "model"
    /\ model.cls = "ModalityConfigs"
    /\ IsChars(model.kwargs.modality)

PlatformStringCase ==
    /\ pc = "model"
    /\ model.cls = "BasicUploadJobConfigs"
    /\ IsChars(model.kwargs.platform)

\* Upper case, and "_" for "-".
Normalised(chars) == replace(upper(chars), "-", "_")

ModalitiesWritten(chars) ==
    { m \in Modalities :
        Normalised(Spelling[ModalityAbbreviation(m)]) = Normalised(chars) }

PlatformsWritten(chars) ==
    { p \in Platforms :
        Normalised(Spelling[PlatformAbbreviation(p)]) = Normalised(chars) }

\* C22: a string that equals a known abbreviation after upper-casing and
\* replacing "-" by "_" on both sides resolves to that modality (in
\* ModalityConfigs) or to that platform (in BasicUploadJobConfigs).
C22_lookup_normalises ==
    /\ ModalityStringCase =>
          \A m \in ModalitiesWritten(model.kwargs.modality.chars) :
              model.ok /\ model.obj.modality = m
    /\ PlatformStringCase =>
          \A p \in PlatformsWritten(model.kwargs.platform.chars) :
              ModalitiesWritten(model.kwargs.modalities[1].modality.chars) /= {}
                  => model.ok /\ model.obj.platform = p

\* C23: a modality or platform string that matches no known abbreviation
\* makes the construction fail with an AttributeError, no ValidationError,
\* whose message is "Unknown Modality: " or "Unknown Platform: " followed by
\* the input as the caller wrote it; an unknown platform is reported before
\* anything else of the job.
C23_unknown_string_error ==
    /\ ModalityStringCase
          /\ ModalitiesWritten(model.kwargs.modality.chars) = {}
          => /\ ~model.ok
             /\ model.exc = "AttributeError"
             /\ model.errors =
                    <<"Unknown Modality: " \o format(model.kwargs.modality.chars)>>
    /\ PlatformStringCase
          /\ PlatformsWritten(model.kwargs.platform.chars) = {}
          => /\ ~model.ok
             /\ model.exc = "AttributeError"
             /\ model.errors =
                    <<"Unknown Platform: " \o format(model.kwargs.platform.chars)>>
    /\ PlatformStringCase
          /\ model.kwargs.platform.chars \in
                 { Spelling[PlatformAbbreviation(p)] : p \in Platforms }
          /\ ModalitiesWritten(model.kwargs.modalities[1].modality.chars) = {}
          => /\ ~model.ok
             /\ model.exc = "AttributeError"
             /\ model.errors =
                    <<"Unknown Modality: "
                        \o format(model.kwargs.modalities[1].modality.chars)>>

C23_witness ==
    /\ PlatformStringCase
    /\ model.kwargs.platform.chars = <<"a", "b", "c", "d", "e", "f">>
    /\ ~model.ok
    /\ model.errors = <<"Unknown Platform: abcdef">>

\* C24: compress_raw_data of a constructed ModalityConfigs is never null; a
\* value the caller passed is kept; without one it is true exactly when the
\* modality is ecephys, given as a member of the taxonomy or as a string.
C24_compress_default ==
    pc = "model" /\ model.cls = "ModalityConfigs" /\ model.ok =>
        /\ model.obj.compress_raw_data \in BOOLEAN
        /\ model.kwargs.compress_raw_data /= PyNone =>
              model.obj.compress_raw_data = model.kwargs.compress_raw_data.v
        /\ model.kwargs.compress_raw_data = PyNone =>
              (model.obj.compress_raw_data <=> model.obj.modality = "ECEPHYS")

C24_witness ==
    /\ ModalityStringCase
    /\ model.ok
    /\ model.kwargs.modality.chars = <<"E", "C", "E", "P", "H", "Y", "S">>
    /\ model.kwargs.compress_raw_data = PyBool(FALSE)
    /\ model.obj.modality = "ECEPHYS"
    /\ ~model.obj.compress_raw_data

\* C25: a ModalityConfigs or BasicUploadJobConfigs constructed with a field
\* that is none of the declared ones is accepted and keeps that field.
C25_extra_fields_allowed ==
    /\ pc = "model"
    /\ "extra_field_1" \in DOMAIN model.kwargs
    => /\ model.ok
       /\ "extra_field_1" \in DOMAIN model.obj
       /\ model.obj.extra_field_1 = model.kwargs.extra_field_1

=============================================================================
